---- MODULE Spec2Model ----
(***************************************************************************)
(* Carioca server core: the game engine (engine/game.rs, engine/rules.rs,  *)
(* engine/combo_finder.rs, engine/deck.rs, engine/card.rs,                 *)
(* engine/points.rs) and the room actor (matchmaking/room.rs, api/ws.rs).  *)
(*                                                                         *)
(* The whole GameState is one record, game_state, as Room owns it.  Every  *)
(* engine operation is an operator from a GameState (and its arguments)    *)
(* to a record [gs, ok, err, result]: the state the call leaves behind     *)
(* and the Result it returns.  Vec indices are 0-based as in the source;   *)
(* a Vec v is a TLA+ sequence and v[i] of the source is v[i + 1] here.     *)
(***************************************************************************)
EXTENDS Integers, Sequences, FiniteSets, TLC

VARIABLES
    game_state,   \* Room.game_state : GameState
    draws,        \* per seat: draws applied since the last turn boundary
    inbox,        \* the RoomEvents queued on the room's mpsc channel
    ready_sent,   \* the seats whose client sent a MarkReady frame while the room waits
    last_error,   \* the message of the last ServerMessage::Error the room sent
    client_rx,    \* per client socket: the channel handle_socket creates for it
    player_channels,     \* the keys of Room.player_channels
    sending,      \* the sends the room task has yet to complete before it is back at recv()
    bot_action_pending,  \* the local bot_action_pending of Room::run
    bot_tasks     \* the tasks check_bot_turn spawned that have not sent their action yet

room_vars == <<inbox, ready_sent, last_error>>

wire_vars == <<client_rx, player_channels, sending, bot_action_pending, bot_tasks>>

vars == <<game_state, draws, inbox, ready_sent, last_error,
          client_rx, player_channels, sending, bot_action_pending, bot_tasks>>

(***************************************************************************)
(* Bounds of the exploration.                                              *)
(***************************************************************************)
\* how many of the deck orders of ShuffleTops deck.shuffle() may produce
NumShuffles == 3
\* a turn starts (a draw is explored) only while fewer than this many turns
\* were completed in the round
MaxRoundTurns == 3
\* draw_from_deck is explored while fewer than this many cards left the deck
\* since the deal
MaxDeckDraws == 2

(***************************************************************************)
(* Generic sequence helpers (Vec operations).                              *)
(***************************************************************************)
Last(s) == s[Len(s)]

Front(s) == SubSeq(s, 1, Len(s) - 1)

\* Vec::remove(i), i 0-based
RemoveAt(s, i) == SubSeq(s, 1, i) \o SubSeq(s, i + 2, Len(s))

\* iter().position(|c| c == x): 0-based index of the first occurrence, -1 for None
Position(s, x) ==
    IF \E i \in 1..Len(s) : s[i] = x
    THEN (CHOOSE i \in 1..Len(s) : s[i] = x /\ \A j \in 1..(i - 1) : s[j] # x) - 1
    ELSE -1

RECURSIVE Flatten(_)
Flatten(ss) == IF ss = <<>> THEN <<>> ELSE Head(ss) \o Flatten(Tail(ss))

RECURSIVE SumSeq(_)
SumSeq(s) == IF s = <<>> THEN 0 ELSE Head(s) + SumSeq(Tail(s))

Count(s, x) == Cardinality({i \in 1..Len(s) : s[i] = x})

\* two sequences hold the same multiset
SameMultiset(s, t) ==
    /\ Len(s) = Len(t)
    /\ \A i \in 1..Len(s) : Count(s, s[i]) = Count(t, s[i])

(***************************************************************************)
(* engine/card.rs                                                          *)
(***************************************************************************)
Suit == <<"Hearts", "Diamonds", "Clubs", "Spades">>

\* enum Value { Two = 2, ..., Ace = 14 }
Value == 2..14

Joker == [suit |-> "Joker", value |-> 0]

Std(s, v) == [suit |-> s, value |-> v]

is_joker(c) == c = Joker

\* points with every standard card at its face value
points_face(c) == IF is_joker(c) THEN 50 ELSE c.value

\* Value::points and Card::points
points(c) ==
    IF is_joker(c) THEN 50
    ELSE IF c.value = 14 THEN 20
    ELSE IF c.value >= 11 THEN 10
    ELSE c.value

\* engine/points.rs
calculate_hand_points(hand) == SumSeq([i \in 1..Len(hand) |-> points(hand[i])])

(***************************************************************************)
(* engine/deck.rs                                                          *)
(***************************************************************************)
\* one 52-card deck plus its two jokers, in the order Deck::new pushes them
OneDeck ==
    [i \in 1..54 |->
        IF i > 52 THEN Joker
        ELSE Std(Suit[((i - 1) \div 13) + 1], ((i - 1) % 13) + 2)]

\* Deck::new(): two decks, 108 cards
DeckNew == OneDeck \o OneDeck

\* s without the first Count(t, c) occurrences of each card c
RemoveCards(s, t) ==
    LET Occurrence(i) == Cardinality({j \in 1..i : s[j] = s[i]})
        keep == {i \in 1..Len(s) : Occurrence(i) > Count(t, s[i])}
        Nth(n) == CHOOSE i \in keep : Cardinality({k \in keep : k <= i}) = n
    IN  [n \in 1..Cardinality(keep) |-> s[Nth(n)]]

Reverse(s) == [i \in 1..Len(s) |-> s[Len(s) + 1 - i]]

\* The permutation of DeckNew whose pops (Deck::draw pops the tail) return
\* top[1], top[2], ... first.
DeckWithTop(top) == RemoveCards(DeckNew, top) \o Reverse(top)

Hrt(v) == Std("Hearts", v)
Dia(v) == Std("Diamonds", v)
Clb(v) == Std("Clubs", v)
Spd(v) == Std("Spades", v)

\* Outcomes of deck.shuffle() the model explores: the first 12 pops are seat
\* 0's hand, the next 12 seat 1's, then the discard card, then the draws.
\* TopA: seat 0 holds five Fives and seven Nines, seat 1 three Sevens, three
\* Jacks and six Kings.
TopA ==
    <<Hrt(5), Dia(5), Clb(5), Spd(5), Hrt(5),
      Hrt(9), Dia(9), Clb(9), Spd(9), Hrt(9), Dia(9), Clb(9)>>
 \o <<Hrt(7), Dia(7), Clb(7), Hrt(11), Dia(11), Clb(11),
      Hrt(13), Dia(13), Clb(13), Spd(13), Hrt(13), Dia(13)>>
 \o <<Spd(2)>>
 \o <<Dia(5), Joker, Spd(9), Spd(7)>>

\* TopB: seat 0 holds the hearts 2..K, seat 1 three Queens and the spades
\* 3..J with the Six in front; the Ace of hearts is on the discard pile and
\* the second Two of hearts is the second card drawn from the deck.
TopB ==
    <<Hrt(2), Hrt(3), Hrt(4), Hrt(5), Hrt(6), Hrt(7),
      Hrt(8), Hrt(9), Hrt(10), Hrt(11), Hrt(12), Hrt(13)>>
 \o <<Dia(12), Clb(12), Spd(12), Spd(6), Spd(3), Spd(4), Spd(5),
      Spd(7), Spd(8), Spd(9), Spd(10), Spd(11)>>
 \o <<Hrt(14)>>
 \o <<Spd(6), Hrt(2), Dia(7), Hrt(7)>>

\* TopC: seat 0 holds three Tens, three Fours and the diamonds 2..7 with the
\* Seven in front, seat 1 three Jacks, 3-4-5-6 of four suits, K-A-2-3 of
\* clubs and a Nine; the second card drawn from the deck is the Ace of
\* diamonds.
TopC ==
    <<Hrt(10), Dia(10), Clb(10), Hrt(4), Dia(4), Clb(4),
      Dia(7), Dia(2), Dia(3), Dia(4), Dia(5), Dia(6)>>
 \o <<Dia(11), Clb(11), Hrt(11), Hrt(3), Spd(4), Clb(5), Spd(6),
      Clb(13), Clb(14), Clb(2), Clb(3), Dia(9)>>
 \o <<Spd(9)>>
 \o <<Joker, Dia(14), Dia(8), Spd(8)>>

\* the deck as Deck::new leaves it (a shuffle may return the identity)
TopD == <<>>

ShuffleTops == <<TopA, TopB, TopC, TopD>>

\* Deck::shuffle: the permutations explored
Shuffles ==
    {DeckWithTop(ShuffleTops[i]) :
        i \in 1..(IF NumShuffles < Len(ShuffleTops) THEN NumShuffles ELSE Len(ShuffleTops))}

(***************************************************************************)
(* engine/rules.rs                                                         *)
(***************************************************************************)
Jokers(cards) == Count(cards, Joker)

\* the standard cards of a group, in order
RECURSIVE StandardCards(_)
StandardCards(cards) ==
    IF cards = <<>> THEN <<>>
    ELSE IF is_joker(Head(cards)) THEN StandardCards(Tail(cards))
    ELSE <<Head(cards)>> \o StandardCards(Tail(cards))

is_valid_trio(cards) ==
    IF Len(cards) < 3 THEN FALSE
    ELSE LET std == StandardCards(cards)
         IN  IF \E i \in 1..Len(std) : std[i].value # std[1].value THEN FALSE
             ELSE Jokers(cards) <= 1 /\ std # <<>>

\* values.sort_unstable(): insertion of each element into a sorted sequence
RECURSIVE InsertSorted(_, _)
InsertSorted(x, s) ==
    IF s = <<>> THEN <<x>>
    ELSE IF x <= Head(s) THEN <<x>> \o s
    ELSE <<Head(s)>> \o InsertSorted(x, Tail(s))

RECURSIVE sort_unstable(_)
sort_unstable(s) == IF s = <<>> THEN <<>> ELSE InsertSorted(Head(s), sort_unstable(Tail(s)))

Max(xs) == CHOOSE x \in xs : \A y \in xs : y <= x

\* the rank the escala check gives a value: the Ace (14) counts as 1
EscalaRank(v) == IF v = 14 THEN 1 ELSE v

\* is_valid_escala with the gap taken between the lowest and the highest
\* rank only: no run through King-Ace-Two
is_valid_escala_linear(cards) ==
    IF Len(cards) < 4 THEN FALSE
    ELSE IF Jokers(cards) > 1 THEN FALSE
    ELSE LET std == StandardCards(cards)
             n == Len(std)
             values == sort_unstable([i \in 1..n |-> EscalaRank(std[i].value)])
             span == values[n] - values[1] + 1
             needed_jokers == span - n
         IN  IF n = 0 THEN FALSE
             ELSE IF \E i \in 1..(n - 1) : values[i] = values[i + 1] THEN FALSE
             ELSE needed_jokers <= Jokers(cards)

is_valid_escala(cards) ==
    IF Len(cards) < 4 THEN FALSE
    ELSE IF Jokers(cards) > 1 THEN FALSE
    ELSE LET std == StandardCards(cards)
             n == Len(std)
             values == sort_unstable([i \in 1..n |-> EscalaRank(std[i].value)])
             gap(i) == IF i = n THEN values[1] + 13 - values[i]
                       ELSE values[i + 1] - values[i]
             max_gap == Max({0} \cup {gap(i) : i \in 1..n})
             span == 13 - max_gap + 1
             needed_jokers == span - n
         IN  IF n = 0 THEN FALSE
             ELSE IF \E i \in 1..(n - 1) : values[i] = values[i + 1] THEN FALSE
             ELSE needed_jokers <= Jokers(cards)

(***************************************************************************)
(* engine/game.rs: RoundType                                               *)
(***************************************************************************)
\* all_rounds with the second and the third round exchanged
all_rounds_swapped ==
    <<"TwoTrios", "TwoEscalas", "OneTrioOneEscala", "ThreeTrios",
      "TwoTriosOneEscala", "OneTrioTwoEscalas", "ThreeEscalas", "FourTrios",
      "EscalaReal">>

\* RoundType::all_rounds()
all_rounds ==
    <<"TwoTrios", "OneTrioOneEscala", "TwoEscalas", "ThreeTrios",
      "TwoTriosOneEscala", "OneTrioTwoEscalas", "ThreeEscalas", "FourTrios",
      "EscalaReal">>

\* RoundType::get_requirements(): <<required_trios, required_escalas>>
get_requirements(round) ==
    CASE round = "TwoTrios" -> <<2, 0>>
      [] round = "OneTrioOneEscala" -> <<1, 1>>
      [] round = "TwoEscalas" -> <<0, 2>>
      [] round = "ThreeTrios" -> <<3, 0>>
      [] round = "TwoTriosOneEscala" -> <<2, 1>>
      [] round = "OneTrioTwoEscalas" -> <<1, 2>>
      [] round = "ThreeEscalas" -> <<0, 3>>
      [] round = "FourTrios" -> <<4, 0>>
      [] round = "EscalaReal" -> <<0, 1>>

(***************************************************************************)
(* engine/game.rs: GameState                                               *)
(***************************************************************************)
NoCard == [suit |-> "None", value |-> 0]

\* Option<LastAction>::None
NoAction == [player_id |-> "", action_type |-> "", card |-> NoCard]

LastAction(pid, type, card) == [player_id |-> pid, action_type |-> type, card |-> card]

\* Option<RoundEndResult>::None
NoResult == [finished_round_index |-> -1]

\* id.starts_with("bot_") over the ids the model uses
BotIds == {"bot_easy", "bot_medium", "bot_hard"}

is_bot(id) == id \in BotIds

\* the Result of an engine call: the state it leaves and what it returns
Ok(gs) == [gs |-> gs, ok |-> TRUE, err |-> "", result |-> NoResult]

OkResult(gs, result) == [gs |-> gs, ok |-> TRUE, err |-> "", result |-> result]

Err(gs, msg) == [gs |-> gs, ok |-> FALSE, err |-> msg, result |-> NoResult]

\* GameState::new
new(player_ids) ==
    [players |-> [i \in 1..Len(player_ids) |->
                    [id |-> player_ids[i],
                     hand |-> <<>>,
                     points |-> 0,
                     has_dropped_hand |-> FALSE,
                     dropped_combinations |-> <<>>,
                     turns_played |-> 0,
                     has_drawn_this_turn |-> FALSE,
                     dropped_hand_this_turn |-> FALSE,
                     is_ready_for_next_round |-> FALSE]],
     current_round |-> "TwoTrios",
     round_index |-> 0,
     current_turn |-> 0,
     deck |-> DeckNew,
     discard_pile |-> <<>>,
     is_game_over |-> FALSE,
     is_waiting_for_next_round |-> FALSE,
     last_action |-> NoAction]

\* the cards the k-th player (0-based) is dealt from a shuffled deck: pops
\* 12k+1 .. 12k+12, pushed onto the hand in pop order (fewer if the deck
\* runs out)
DealSize == 12

Pops(deck, from, n) ==
    LET avail == IF Len(deck) - from < n THEN (IF Len(deck) - from < 0 THEN 0 ELSE Len(deck) - from) ELSE n
    IN  [j \in 1..avail |-> deck[Len(deck) - from - j + 1]]

\* a start_round that leaves the ready flags of the finished round set
start_round_keeps_ready(gs, shuffled) ==
    LET n == Len(gs.players)
        dealt == n * DealSize
        top == Pops(shuffled, dealt, 1)
        left == Len(shuffled) - dealt - Len(top)
    IN  [gs EXCEPT
            !.deck = SubSeq(shuffled, 1, IF left < 0 THEN 0 ELSE left),
            !.discard_pile = top,
            !.last_action = NoAction,
            !.players = [i \in 1..n |->
                [gs.players[i] EXCEPT
                    !.hand = Pops(shuffled, (i - 1) * DealSize, DealSize),
                    !.has_dropped_hand = FALSE,
                    !.dropped_combinations = <<>>,
                    !.turns_played = 0,
                    !.has_drawn_this_turn = FALSE,
                    !.dropped_hand_this_turn = FALSE]]]

\* GameState::start_round with the permutation deck.shuffle() produced
start_round(gs, shuffled) ==
    LET n == Len(gs.players)
        dealt == n * DealSize
        top == Pops(shuffled, dealt, 1)
        left == Len(shuffled) - dealt - Len(top)
    IN  [gs EXCEPT
            !.deck = SubSeq(shuffled, 1, IF left < 0 THEN 0 ELSE left),
            !.discard_pile = top,
            !.last_action = NoAction,
            !.players = [i \in 1..n |->
                [gs.players[i] EXCEPT
                    !.hand = Pops(shuffled, (i - 1) * DealSize, DealSize),
                    !.has_dropped_hand = FALSE,
                    !.dropped_combinations = <<>>,
                    !.turns_played = 0,
                    !.has_drawn_this_turn = FALSE,
                    !.dropped_hand_this_turn = FALSE,
                    !.is_ready_for_next_round = FALSE]]]

\* GameState::draw_from_deck
draw_from_deck(gs) ==
    IF gs.is_game_over THEN Err(gs, "Game is over")
    ELSE IF gs.is_waiting_for_next_round
    THEN Err(gs, "Waiting for other players to be ready for the next round")
    ELSE IF gs.deck = <<>> THEN Err(gs, "Deck is empty")
    ELSE LET card == Last(gs.deck)
             \* self.deck.draw() has popped the card before the flag is read
             popped == [gs EXCEPT !.deck = Front(gs.deck)]
             idx == gs.current_turn + 1
             player == gs.players[idx]
         IN  IF player.has_drawn_this_turn
             THEN Err(popped, "You have already drawn a card this turn")
             ELSE Ok([popped EXCEPT
                        !.players[idx].hand = Append(player.hand, card),
                        !.players[idx].has_drawn_this_turn = TRUE,
                        !.last_action = LastAction(player.id, "drew_from_deck", NoCard)])

\* draw_from_discard without its game-over and waiting checks
draw_from_discard_ungated(gs) ==
    LET idx == gs.current_turn + 1
        player == gs.players[idx]
    IN  IF player.has_drawn_this_turn
        THEN Err(gs, "You have already drawn a card this turn")
        ELSE IF player.has_dropped_hand
        THEN Err(gs, "Cannot draw from discard after dropping hand")
        ELSE IF gs.discard_pile = <<>> THEN Err(gs, "Discard pile is empty")
        ELSE LET card == Last(gs.discard_pile)
             IN  Ok([gs EXCEPT
                       !.discard_pile = Front(gs.discard_pile),
                       !.players[idx].hand = Append(player.hand, card),
                       !.players[idx].has_drawn_this_turn = TRUE,
                       !.last_action = LastAction(player.id, "drew_from_pozo", card)])

\* draw_from_discard without its has_drawn_this_turn check
draw_from_discard_redraw(gs) ==
    IF gs.is_game_over THEN Err(gs, "Game is over")
    ELSE IF gs.is_waiting_for_next_round
    THEN Err(gs, "Waiting for other players to be ready for the next round")
    ELSE LET idx == gs.current_turn + 1
             player == gs.players[idx]
         IN  IF player.has_dropped_hand
             THEN Err(gs, "Cannot draw from discard after dropping hand")
             ELSE IF gs.discard_pile = <<>> THEN Err(gs, "Discard pile is empty")
             ELSE LET card == Last(gs.discard_pile)
                  IN  Ok([gs EXCEPT
                            !.discard_pile = Front(gs.discard_pile),
                            !.players[idx].hand = Append(player.hand, card),
                            !.players[idx].has_drawn_this_turn = TRUE,
                            !.last_action = LastAction(player.id, "drew_from_pozo", card)])

\* draw_from_discard without its has_dropped_hand check
draw_from_discard_bajado(gs) ==
    IF gs.is_game_over THEN Err(gs, "Game is over")
    ELSE IF gs.is_waiting_for_next_round
    THEN Err(gs, "Waiting for other players to be ready for the next round")
    ELSE LET idx == gs.current_turn + 1
             player == gs.players[idx]
         IN  IF player.has_drawn_this_turn
             THEN Err(gs, "You have already drawn a card this turn")
             ELSE IF gs.discard_pile = <<>> THEN Err(gs, "Discard pile is empty")
             ELSE LET card == Last(gs.discard_pile)
                  IN  Ok([gs EXCEPT
                            !.discard_pile = Front(gs.discard_pile),
                            !.players[idx].hand = Append(player.hand, card),
                            !.players[idx].has_drawn_this_turn = TRUE,
                            !.last_action = LastAction(player.id, "drew_from_pozo", card)])

\* GameState::draw_from_discard
draw_from_discard(gs) ==
    IF gs.is_game_over THEN Err(gs, "Game is over")
    ELSE IF gs.is_waiting_for_next_round
    THEN Err(gs, "Waiting for other players to be ready for the next round")
    ELSE LET idx == gs.current_turn + 1
             player == gs.players[idx]
         IN  IF player.has_drawn_this_turn
             THEN Err(gs, "You have already drawn a card this turn")
             ELSE IF player.has_dropped_hand
             THEN Err(gs, "Cannot draw from discard after dropping hand")
             ELSE IF gs.discard_pile = <<>> THEN Err(gs, "Discard pile is empty")
             ELSE LET card == Last(gs.discard_pile)
                  IN  Ok([gs EXCEPT
                            !.discard_pile = Front(gs.discard_pile),
                            !.players[idx].hand = Append(player.hand, card),
                            !.players[idx].has_drawn_this_turn = TRUE,
                            !.last_action = LastAction(player.id, "drew_from_pozo", card)])

\* end_round leaving current_turn at the winner's seat
end_round_winner_starts(gs) ==
    LET n == Len(gs.players)
        round_points == [i \in 1..n |-> calculate_hand_points(gs.players[i].hand)]
        scored == [i \in 1..n |->
                    [gs.players[i] EXCEPT !.points = @ + round_points[i]]]
        player_scores == [i \in 1..n |->
                            <<scored[i].id, round_points[i], scored[i].points>>]
        next == gs.round_index + 1
        more == next < Len(all_rounds)
        result == [finished_round_index |-> gs.round_index,
                   finished_round_name |-> gs.current_round,
                   winner_id |-> gs.players[gs.current_turn + 1].id,
                   player_scores |-> player_scores,
                   next_round_index |-> next,
                   next_round_name |-> IF more THEN all_rounds[next + 1] ELSE "Game Over",
                   is_game_over |-> ~more]
        after ==
            IF more
            THEN [gs EXCEPT
                    !.round_index = next,
                    !.current_round = all_rounds[next + 1],
                    !.is_waiting_for_next_round = TRUE,
                    !.players = [i \in 1..n |->
                        [scored[i] EXCEPT !.is_ready_for_next_round = is_bot(scored[i].id)]]]
            ELSE [gs EXCEPT
                    !.round_index = next,
                    !.players = scored,
                    !.is_game_over = TRUE]
    IN  <<after, result>>

\* GameState::end_round: <<state, RoundEndResult>>
end_round(gs) ==
    LET n == Len(gs.players)
        round_points == [i \in 1..n |-> calculate_hand_points(gs.players[i].hand)]
        scored == [i \in 1..n |->
                    [gs.players[i] EXCEPT !.points = @ + round_points[i]]]
        player_scores == [i \in 1..n |->
                            <<scored[i].id, round_points[i], scored[i].points>>]
        next == gs.round_index + 1
        more == next < Len(all_rounds)
        result == [finished_round_index |-> gs.round_index,
                   finished_round_name |-> gs.current_round,
                   winner_id |-> gs.players[gs.current_turn + 1].id,
                   player_scores |-> player_scores,
                   next_round_index |-> next,
                   next_round_name |-> IF more THEN all_rounds[next + 1] ELSE "Game Over",
                   is_game_over |-> ~more]
        after ==
            IF more
            THEN [gs EXCEPT
                    !.round_index = next,
                    !.current_round = all_rounds[next + 1],
                    !.current_turn = next % n,
                    !.is_waiting_for_next_round = TRUE,
                    !.players = [i \in 1..n |->
                        [scored[i] EXCEPT !.is_ready_for_next_round = is_bot(scored[i].id)]]]
            ELSE [gs EXCEPT
                    !.round_index = next,
                    !.players = scored,
                    !.is_game_over = TRUE]
    IN  <<after, result>>

\* discard without its has_drawn_this_turn check
discard_undrawn(gs, card_index) ==
    IF gs.is_game_over THEN Err(gs, "Game is over")
    ELSE IF gs.is_waiting_for_next_round
    THEN Err(gs, "Waiting for other players to be ready for the next round")
    ELSE LET idx == gs.current_turn + 1
             player == gs.players[idx]
         IN  IF card_index >= Len(player.hand)
             THEN Err(gs, "Card index out of bounds")
             ELSE LET card == player.hand[card_index + 1]
                      hand == RemoveAt(player.hand, card_index)
                      played == [gs EXCEPT
                                    !.players[idx].hand = hand,
                                    !.discard_pile = Append(gs.discard_pile, card),
                                    !.last_action = LastAction(player.id, "discarded", card),
                                    !.players[idx].turns_played = @ + 1,
                                    !.players[idx].has_drawn_this_turn = FALSE,
                                    !.players[idx].dropped_hand_this_turn = FALSE]
                      nxt == (gs.current_turn + 1) % Len(gs.players)
                  IN  IF hand = <<>>
                      THEN LET e == end_round(played) IN OkResult(e[1], e[2])
                      ELSE Ok([played EXCEPT
                                !.current_turn = nxt,
                                !.players[nxt + 1].has_drawn_this_turn = FALSE,
                                !.players[nxt + 1].dropped_hand_this_turn = FALSE])

\* GameState::discard
discard(gs, card_index) ==
    IF gs.is_game_over THEN Err(gs, "Game is over")
    ELSE IF gs.is_waiting_for_next_round
    THEN Err(gs, "Waiting for other players to be ready for the next round")
    ELSE LET idx == gs.current_turn + 1
             player == gs.players[idx]
         IN  IF ~player.has_drawn_this_turn
             THEN Err(gs, "You must draw a card before discarding")
             ELSE IF card_index >= Len(player.hand)
             THEN Err(gs, "Card index out of bounds")
             ELSE LET card == player.hand[card_index + 1]
                      hand == RemoveAt(player.hand, card_index)
                      played == [gs EXCEPT
                                    !.players[idx].hand = hand,
                                    !.discard_pile = Append(gs.discard_pile, card),
                                    !.last_action = LastAction(player.id, "discarded", card),
                                    !.players[idx].turns_played = @ + 1,
                                    !.players[idx].has_drawn_this_turn = FALSE,
                                    !.players[idx].dropped_hand_this_turn = FALSE]
                      nxt == (gs.current_turn + 1) % Len(gs.players)
                  IN  IF hand = <<>>
                      THEN LET e == end_round(played) IN OkResult(e[1], e[2])
                      ELSE Ok([played EXCEPT
                                !.current_turn = nxt,
                                !.players[nxt + 1].has_drawn_this_turn = FALSE,
                                !.players[nxt + 1].dropped_hand_this_turn = FALSE])

\* the seat of a player id: iter().position / find, 0-based, -1 for None
FindPlayer(gs, player_id) ==
    IF \E i \in 1..Len(gs.players) : gs.players[i].id = player_id
    THEN (CHOOSE i \in 1..Len(gs.players) :
            /\ gs.players[i].id = player_id
            /\ \A j \in 1..(i - 1) : gs.players[j].id # player_id) - 1
    ELSE -1

\* mark_player_ready starting the round at the first ready seat
mark_player_ready_first(gs, player_id, shuffled) ==
    IF ~gs.is_waiting_for_next_round THEN Err(gs, "Game is not waiting for next round")
    ELSE LET p == FindPlayer(gs, player_id)
         IN  IF p < 0 THEN Err(gs, "Player not found")
             ELSE LET marked == [gs EXCEPT !.players[p + 1].is_ready_for_next_round = TRUE]
                  IN  Ok(start_round([marked EXCEPT !.is_waiting_for_next_round = FALSE],
                                     shuffled))

\* GameState::mark_player_ready with the permutation a start_round would deal
mark_player_ready(gs, player_id, shuffled) ==
    IF ~gs.is_waiting_for_next_round THEN Err(gs, "Game is not waiting for next round")
    ELSE LET p == FindPlayer(gs, player_id)
         IN  IF p < 0 THEN Err(gs, "Player not found")
             ELSE LET marked == [gs EXCEPT !.players[p + 1].is_ready_for_next_round = TRUE]
                      all_ready == \A i \in 1..Len(marked.players) :
                                        marked.players[i].is_ready_for_next_round
                  IN  IF all_ready
                      THEN Ok(start_round([marked EXCEPT !.is_waiting_for_next_round = FALSE],
                                          shuffled))
                      ELSE Ok(marked)

\* the removal loop without its "card not in hand" exit: an absent card is
\* skipped
RECURSIVE RemoveEach_lenient(_, _)
RemoveEach_lenient(copy, cards) ==
    IF cards = <<>> THEN <<TRUE, copy>>
    ELSE LET i == Position(copy, Head(cards))
         IN  RemoveEach_lenient(IF i < 0 THEN copy ELSE RemoveAt(copy, i), Tail(cards))

\* the loop of reorder_hand and drop_hand that removes each named card from
\* a clone of the hand: <<found all, what is left of the clone>>
RECURSIVE RemoveEach(_, _)
RemoveEach(copy, cards) ==
    IF cards = <<>> THEN <<TRUE, copy>>
    ELSE LET i == Position(copy, Head(cards))
         IN  IF i < 0 THEN <<FALSE, copy>>
             ELSE RemoveEach(RemoveAt(copy, i), Tail(cards))

\* reorder_hand with a membership test in place of the removal loop: every
\* named card only has to occur in the hand
reorder_hand_members(gs, player_id, new_hand) ==
    LET p == FindPlayer(gs, player_id)
    IN  IF p < 0 THEN Err(gs, "Player not found")
        ELSE LET player == gs.players[p + 1]
             IN  IF Len(player.hand) # Len(new_hand)
                 THEN Err(gs, "New hand length does not match current hand length")
                 ELSE IF \E i \in 1..Len(new_hand) : Position(player.hand, new_hand[i]) < 0
                 THEN Err(gs, "New hand contains an unknown card or extra duplicate")
                 ELSE Ok([gs EXCEPT !.players[p + 1].hand = new_hand])

\* GameState::reorder_hand
reorder_hand(gs, player_id, new_hand) ==
    LET p == FindPlayer(gs, player_id)
    IN  IF p < 0 THEN Err(gs, "Player not found")
        ELSE LET player == gs.players[p + 1]
             IN  IF Len(player.hand) # Len(new_hand)
                 THEN Err(gs, "New hand length does not match current hand length")
                 ELSE IF ~RemoveEach(player.hand, new_hand)[1]
                 THEN Err(gs, "New hand contains an unknown card or extra duplicate")
                 ELSE Ok([gs EXCEPT !.players[p + 1].hand = new_hand])

\* the classification loop without the validity tests: every group of three
\* or more cards counts as a trio
ComboKind_lax(combo) == IF Len(combo) >= 3 THEN "trio" ELSE "invalid"

\* the classification loop of drop_hand: "trio", "escala" or "invalid" per group
ComboKind(combo) ==
    IF Len(combo) >= 3 /\ is_valid_trio(combo) THEN "trio"
    ELSE IF Len(combo) >= 4 /\ is_valid_escala(combo) THEN "escala"
    ELSE "invalid"

CountKind(combinations, kind) ==
    Cardinality({i \in 1..Len(combinations) : ComboKind(combinations[i]) = kind})

\* GameState::drop_hand
drop_hand(gs, player_id, combinations) ==
    IF gs.is_game_over THEN Err(gs, "Game is over")
    ELSE IF gs.is_waiting_for_next_round
    THEN Err(gs, "Waiting for other players to be ready for the next round")
    ELSE LET idx == gs.current_turn + 1
             player == gs.players[idx]
             removed == RemoveEach(player.hand, Flatten(combinations))
             req == get_requirements(gs.current_round)
         IN  IF player.id # player_id THEN Err(gs, "Not your turn")
             ELSE IF ~player.has_drawn_this_turn
             THEN Err(gs, "You must draw a card before trying to drop your hand")
             ELSE IF player.has_dropped_hand THEN Err(gs, "Hand already dropped")
             ELSE IF ~removed[1]
             THEN Err(gs, "Combinations contain cards not in player's hand")
             ELSE IF CountKind(combinations, "invalid") > 0
             THEN Err(gs, "Invalid combination: trios must be at least 3 cards, escalas at least 4")
             ELSE IF CountKind(combinations, "trio") # req[1]
                     \/ CountKind(combinations, "escala") # req[2]
             THEN Err(gs, "Combinations do not match the current round requirements")
             ELSE Ok([gs EXCEPT
                        !.players[idx].hand = removed[2],
                        !.players[idx].has_dropped_hand = TRUE,
                        !.players[idx].dropped_hand_this_turn = TRUE,
                        !.players[idx].dropped_combinations = combinations,
                        !.last_action = LastAction(player.id, "bajó", NoCard)])

(***************************************************************************)
(* engine/combo_finder.rs: shedding helpers                                *)
(***************************************************************************)
is_meld_trio(meld) ==
    IF Len(meld) < 3 THEN FALSE
    ELSE IF Jokers(meld) > 1 THEN FALSE
    ELSE LET std == StandardCards(meld)
         IN  IF \E i \in 1..Len(std) : std[i].value # std[1].value THEN FALSE
             ELSE std # <<>>

is_meld_escala(meld) == is_valid_escala(meld)

\* jokers before the first standard card / after the last one
LeadingJokers(meld) ==
    Cardinality({i \in 1..Len(meld) : \A j \in 1..i : is_joker(meld[j])})

TrailingJokers(meld) ==
    Cardinality({i \in 1..Len(meld) : \A j \in i..Len(meld) : is_joker(meld[j])})

\* escala_first_value / escala_last_value: -1 for None, else the u8 result
escala_first_value(meld) ==
    LET std == StandardCards(meld)
    IN  IF std = <<>> THEN -1
        ELSE (std[1].value - LeadingJokers(meld)) % 256

escala_last_value(meld) ==
    LET std == StandardCards(meld)
    IN  IF std = <<>> THEN -1
        ELSE (Last(std).value + TrailingJokers(meld)) % 256

\* can_shed: "ExtendLeft", "ExtendRight", "TrioExtension" or "None"
can_shed(card, meld) ==
    IF meld = <<>> THEN "None"
    ELSE LET joker_count == Jokers(meld)
             is_trio == is_meld_trio(meld)
             is_escala == ~is_trio /\ is_meld_escala(meld)
             std == StandardCards(meld)
         IN  IF is_trio
             THEN IF is_joker(card) /\ joker_count >= 1 THEN "None"
                  ELSE IF ~is_joker(card) /\ card.value = std[1].value THEN "TrioExtension"
                  ELSE IF is_joker(card) THEN "TrioExtension"
                  ELSE "None"
             ELSE IF is_escala
             THEN LET suit == std[1].suit
                      first_val == escala_first_value(meld)
                      last_val == escala_last_value(meld)
                  IN  IF ~is_joker(card)
                      THEN IF card.suit # suit THEN "None"
                           ELSE IF card.value + 1 = first_val THEN "ExtendLeft"
                           ELSE IF card.value = last_val + 1 THEN "ExtendRight"
                           ELSE "None"
                      ELSE IF joker_count = 0 THEN "ExtendRight" ELSE "None"
             ELSE "None"

\* shed_card without its dropped_hand_this_turn check
shed_card_same_turn(gs, player_id, hand_card_index, target_player_id, target_combo_idx) ==
    IF gs.is_game_over THEN Err(gs, "Game is over")
    ELSE IF gs.is_waiting_for_next_round
    THEN Err(gs, "Waiting for other players to be ready for the next round")
    ELSE LET current_idx == gs.current_turn + 1
             player == gs.players[current_idx]
             target_player_pos == FindPlayer(gs, target_player_id)
         IN  IF player.id # player_id THEN Err(gs, "Not your turn")
             ELSE IF ~player.has_dropped_hand
             THEN Err(gs, "You must drop your hand before shedding cards")
             ELSE IF ~player.has_drawn_this_turn
             THEN Err(gs, "You must draw a card before shedding cards")
             ELSE IF hand_card_index >= Len(player.hand)
             THEN Err(gs, "Card index out of bounds")
             ELSE IF target_player_pos < 0 THEN Err(gs, "Target player not found")
             ELSE LET card == player.hand[hand_card_index + 1]
                      target_player == gs.players[target_player_pos + 1]
                  IN  IF ~target_player.has_dropped_hand
                      THEN Err(gs, "Target player has not dropped their hand yet")
                      ELSE IF target_combo_idx >= Len(target_player.dropped_combinations)
                      THEN Err(gs, "Target combo index out of bounds")
                      ELSE LET combo == target_player.dropped_combinations[target_combo_idx + 1]
                               position == can_shed(card, combo)
                               removed == [gs EXCEPT
                                    !.players[current_idx].hand = RemoveAt(@, hand_card_index),
                                    !.last_action = LastAction(player.id, "shed", card)]
                               shed == [removed EXCEPT
                                    !.players[target_player_pos + 1]
                                        .dropped_combinations[target_combo_idx + 1] =
                                        IF position = "ExtendLeft" THEN <<card>> \o @
                                        ELSE Append(@, card)]
                           IN  IF position = "None"
                               THEN Err(gs, "This card cannot be shed onto that combo")
                               ELSE IF shed.players[current_idx].hand = <<>>
                               THEN LET e == end_round(shed) IN OkResult(e[1], e[2])
                               ELSE Ok(shed)

\* shed_card pushing the card at the back of the meld whatever can_shed reports
shed_card_push(gs, player_id, hand_card_index, target_player_id, target_combo_idx) ==
    IF gs.is_game_over THEN Err(gs, "Game is over")
    ELSE IF gs.is_waiting_for_next_round
    THEN Err(gs, "Waiting for other players to be ready for the next round")
    ELSE LET current_idx == gs.current_turn + 1
             player == gs.players[current_idx]
             target_player_pos == FindPlayer(gs, target_player_id)
         IN  IF player.id # player_id THEN Err(gs, "Not your turn")
             ELSE IF ~player.has_dropped_hand
             THEN Err(gs, "You must drop your hand before shedding cards")
             ELSE IF player.dropped_hand_this_turn
             THEN Err(gs, "You cannot shed cards on the same turn you drop your hand")
             ELSE IF ~player.has_drawn_this_turn
             THEN Err(gs, "You must draw a card before shedding cards")
             ELSE IF hand_card_index >= Len(player.hand)
             THEN Err(gs, "Card index out of bounds")
             ELSE IF target_player_pos < 0 THEN Err(gs, "Target player not found")
             ELSE LET card == player.hand[hand_card_index + 1]
                      target_player == gs.players[target_player_pos + 1]
                  IN  IF ~target_player.has_dropped_hand
                      THEN Err(gs, "Target player has not dropped their hand yet")
                      ELSE IF target_combo_idx >= Len(target_player.dropped_combinations)
                      THEN Err(gs, "Target combo index out of bounds")
                      ELSE LET combo == target_player.dropped_combinations[target_combo_idx + 1]
                               position == can_shed(card, combo)
                               removed == [gs EXCEPT
                                    !.players[current_idx].hand = RemoveAt(@, hand_card_index),
                                    !.last_action = LastAction(player.id, "shed", card)]
                               shed == [removed EXCEPT
                                    !.players[target_player_pos + 1]
                                        .dropped_combinations[target_combo_idx + 1] =
                                        Append(@, card)]
                           IN  IF position = "None"
                               THEN Err(gs, "This card cannot be shed onto that combo")
                               ELSE IF shed.players[current_idx].hand = <<>>
                               THEN LET e == end_round(shed) IN OkResult(e[1], e[2])
                               ELSE Ok(shed)

\* GameState::shed_card
shed_card(gs, player_id, hand_card_index, target_player_id, target_combo_idx) ==
    IF gs.is_game_over THEN Err(gs, "Game is over")
    ELSE IF gs.is_waiting_for_next_round
    THEN Err(gs, "Waiting for other players to be ready for the next round")
    ELSE LET current_idx == gs.current_turn + 1
             player == gs.players[current_idx]
             target_player_pos == FindPlayer(gs, target_player_id)
         IN  IF player.id # player_id THEN Err(gs, "Not your turn")
             ELSE IF ~player.has_dropped_hand
             THEN Err(gs, "You must drop your hand before shedding cards")
             ELSE IF player.dropped_hand_this_turn
             THEN Err(gs, "You cannot shed cards on the same turn you drop your hand")
             ELSE IF ~player.has_drawn_this_turn
             THEN Err(gs, "You must draw a card before shedding cards")
             ELSE IF hand_card_index >= Len(player.hand)
             THEN Err(gs, "Card index out of bounds")
             ELSE IF target_player_pos < 0 THEN Err(gs, "Target player not found")
             ELSE LET card == player.hand[hand_card_index + 1]
                      target_player == gs.players[target_player_pos + 1]
                  IN  IF ~target_player.has_dropped_hand
                      THEN Err(gs, "Target player has not dropped their hand yet")
                      ELSE IF target_combo_idx >= Len(target_player.dropped_combinations)
                      THEN Err(gs, "Target combo index out of bounds")
                      ELSE LET combo == target_player.dropped_combinations[target_combo_idx + 1]
                               position == can_shed(card, combo)
                               removed == [gs EXCEPT
                                    !.players[current_idx].hand = RemoveAt(@, hand_card_index),
                                    !.last_action = LastAction(player.id, "shed", card)]
                               shed == [removed EXCEPT
                                    !.players[target_player_pos + 1]
                                        .dropped_combinations[target_combo_idx + 1] =
                                        IF position = "ExtendLeft" THEN <<card>> \o @
                                        ELSE Append(@, card)]
                           IN  IF position = "None"
                               THEN Err(gs, "This card cannot be shed onto that combo")
                               ELSE IF shed.players[current_idx].hand = <<>>
                               THEN LET e == end_round(shed) IN OkResult(e[1], e[2])
                               ELSE Ok(shed)

(***************************************************************************)
(* The engine driven directly: every public operation of GameState, called *)
(* with any of the arguments below in any state.                           *)
(***************************************************************************)
\* the player lists GameState::new is given
Rosters == {<<"alice", "bob">>}

\* an id no seat has
Stranger == "mallory"

Ids(gs) == {gs.players[i].id : i \in 1..Len(gs.players)}

CurrentPlayer(gs) == gs.players[gs.current_turn + 1]

\* the seats that are not bots
NonBots(gs) == {id \in Ids(gs) : ~is_bot(id)}

PlayerById(gs, id) == gs.players[FindPlayer(gs, id) + 1]

\* the hand a caller's payloads are cut from (an unknown caller names the
\* cards of the seat in turn)
HandOf(gs, player_id) ==
    IF FindPlayer(gs, player_id) < 0 THEN CurrentPlayer(gs).hand
    ELSE PlayerById(gs, player_id).hand

InRound(gs) == ~gs.is_game_over /\ ~gs.is_waiting_for_next_round

\* cards that left the deck since the deal
DeckDraws(gs) == Len(DeckNew) - Len(gs.players) * DealSize - 1 - Len(gs.deck)

\* card_index arguments of discard: the first card and one past the end
DiscardChoices(hand) == {0, Len(hand)}

\* hand_card_index arguments of shed_card: the first card, the last card (the
\* one just drawn) and one past the end
ShedChoices(hand) == {0, Len(hand)} \cup (IF hand = <<>> THEN {} ELSE {Len(hand) - 1})

\* the per-seat count of applied draws at a turn boundary
NoDraws(gs) == [i \in 1..Len(gs.players) |-> 0]

Init ==
    \E roster \in Rosters, shuffled \in Shuffles :
        /\ game_state = start_round(new(roster), shuffled)
        /\ draws = [i \in 1..Len(roster) |-> 0]
        /\ inbox = <<>>
        /\ ready_sent = {}
        /\ last_error = ""
        /\ client_rx = [id \in {roster[i] : i \in 1..Len(roster)} |->
                            [state |-> "idle", queue |-> <<>>]]
        /\ player_channels = {}
        /\ sending = <<>>
        /\ bot_action_pending = FALSE
        /\ bot_tasks = <<>>

TurnsPlayed(gs) == SumSeq([i \in 1..Len(gs.players) |-> gs.players[i].turns_played])

MayDraw(gs) == ~InRound(gs) \/ TurnsPlayed(gs) < MaxRoundTurns

MayDrawFromDeck(gs) == ~InRound(gs) \/ DeckDraws(gs) < MaxDeckDraws

DrawFromDeck ==
    /\ MayDraw(game_state)
    /\ MayDrawFromDeck(game_state)
    /\ UNCHANGED <<room_vars, wire_vars>>
    /\ LET r == draw_from_deck(game_state)
       IN  /\ game_state' = r.gs
           /\ draws' = IF r.ok THEN [draws EXCEPT ![game_state.current_turn + 1] = @ + 1]
                       ELSE draws

DrawFromDiscard ==
    /\ MayDraw(game_state)
    /\ UNCHANGED <<room_vars, wire_vars>>
    /\ LET r == draw_from_discard(game_state)
       IN  /\ game_state' = r.gs
           /\ draws' = IF r.ok THEN [draws EXCEPT ![game_state.current_turn + 1] = @ + 1]
                       ELSE draws

Discard ==
    \E card_index \in DiscardChoices(CurrentPlayer(game_state).hand) :
        LET r == discard(game_state, card_index)
        IN  /\ game_state' = r.gs
            /\ draws' = IF r.ok THEN NoDraws(game_state) ELSE draws
            /\ UNCHANGED <<room_vars, wire_vars>>

MarkPlayerReady ==
    \E player_id \in Ids(game_state) \cup {Stranger}, shuffled \in Shuffles :
        LET r == mark_player_ready(game_state, player_id, shuffled)
        IN  /\ game_state' = r.gs
            /\ draws' = IF r.ok /\ ~r.gs.is_waiting_for_next_round
                        THEN NoDraws(game_state) ELSE draws
            /\ UNCHANGED <<room_vars, wire_vars>>

\* DropHand payloads: the caller's hand cut into consecutive groups of the
\* given sizes (a negative entry skips that many cards)
RECURSIVE Tile(_, _)
Tile(hand, sizes) ==
    IF sizes = <<>> THEN <<>>
    ELSE LET k == IF Head(sizes) < 0 THEN -Head(sizes) ELSE Head(sizes)
             m == IF k > Len(hand) THEN Len(hand) ELSE k
             rest == SubSeq(hand, m + 1, Len(hand))
         IN  IF Head(sizes) < 0 THEN Tile(rest, Tail(sizes))
             ELSE <<SubSeq(hand, 1, m)>> \o Tile(rest, Tail(sizes))

SizeLists ==
    {<<5, 7>>, <<3, 9>>, <<6, 6>>, <<3, 3, 6>>, <<3, 4, 5>>, <<4, 4, 4>>,
     <<3, 3, 3, 3>>, <<12>>, <<13>>, <<3, 4>>, <<3, 3>>, <<3, -4, 4>>,
     <<-1, 11>>, <<2, 3>>, <<3>>, <<>>}

\* sizes whose first group is submitted a second time
RepeatLists == {<<3>>, <<5, 7>>}

\* a valid trio of cards the callers of the model never hold
Foreign == <<<<Spd(14), Spd(14), Hrt(14)>>>>

Submissions(hand) ==
    {Tile(hand, sizes) : sizes \in SizeLists}
        \cup {Tile(hand, sizes) \o <<Tile(hand, sizes)[1]>> : sizes \in RepeatLists}
        \cup {Foreign}

\* ReorderHand payloads: the current order, the first two cards swapped, one
\* card short, and a card replaced by a copy of its neighbour
Swap01(hand) ==
    IF Len(hand) < 2 THEN hand
    ELSE <<hand[2], hand[1]>> \o SubSeq(hand, 3, Len(hand))

ReorderChoices(hand) ==
    {hand, Swap01(hand)}
        \cup (IF hand = <<>> THEN {} ELSE {Tail(hand), <<Joker>> \o Tail(hand)})

\* target_combo_idx arguments
MaxComboIdx == 2

\* during a round reorder_hand is explored for hands of at most this many cards
MaxReorderLen == 2

\* a seat out of turn is explored with one payload
DropHand ==
    \E player_id \in Ids(game_state) :
        \E combinations \in
                IF player_id = CurrentPlayer(game_state).id
                THEN Submissions(PlayerById(game_state, player_id).hand)
                ELSE {Tile(PlayerById(game_state, player_id).hand, <<3, 3>>)} :
            LET r == drop_hand(game_state, player_id, combinations)
            IN  /\ game_state' = r.gs
                /\ UNCHANGED <<draws, room_vars, wire_vars>>

\* a seat out of turn, and an unknown target, are explored with one payload
ShedExplored(gs, player_id, hand_card_index, target_player_id, target_combo_idx) ==
    \/ player_id = CurrentPlayer(gs).id /\ target_player_id # Stranger
    \/ hand_card_index = 0 /\ target_player_id \in {player_id, Stranger} /\ target_combo_idx = 0

ShedCard ==
    \E player_id \in Ids(game_state),
       target_player_id \in Ids(game_state) \cup {Stranger},
       target_combo_idx \in 0..MaxComboIdx :
        \E hand_card_index \in ShedChoices(PlayerById(game_state, player_id).hand) :
            /\ ShedExplored(game_state, player_id, hand_card_index,
                            target_player_id, target_combo_idx)
            /\ game_state' = shed_card(game_state, player_id, hand_card_index,
                                       target_player_id, target_combo_idx).gs
            /\ UNCHANGED <<draws, room_vars, wire_vars>>

MayReorder(gs, hand) == ~InRound(gs) \/ Len(hand) <= MaxReorderLen

ReorderHand ==
    \E player_id \in Ids(game_state) \cup {Stranger} :
        LET hand == IF player_id = Stranger THEN <<>>
                    ELSE PlayerById(game_state, player_id).hand
        IN  /\ MayReorder(game_state, hand)
            /\ \E new_hand \in ReorderChoices(hand) :
                LET r == reorder_hand(game_state, player_id, new_hand)
                IN  /\ game_state' = r.gs
                    /\ UNCHANGED <<draws, room_vars, wire_vars>>

Next ==
    \/ DrawFromDeck
    \/ DrawFromDiscard
    \/ Discard
    \/ DropHand
    \/ ShedCard
    \/ ReorderHand
    \/ MarkPlayerReady

Spec == Init /\ [][Next]_vars

(***************************************************************************)
(* The room actor: matchmaking/room.rs, api/ws.rs, api/events.rs           *)
(***************************************************************************)
\* the variants of ClientMessage, by their serde tag "type"
ClientMessage ==
    {"DrawFromDeck", "DrawFromDiscard", "Discard", "DropHand", "ShedCard", "ReorderHand"}

\* a text frame a client sends: its tag and the payload fields (those a tag
\* does not use stay at their defaults)
Frame(type, index, combinations, hand, target_player_id, target_combo_idx) ==
    [type |-> type, index |-> index, combinations |-> combinations, hand |-> hand,
     target_player_id |-> target_player_id, target_combo_idx |-> target_combo_idx]

Bare(type) == Frame(type, 0, <<>>, <<>>, "", 0)

\* serde_json::from_str::<ClientMessage>(&text) is Ok
Parses(frame) == frame.type \in ClientMessage

\* handle_action without its turn check
handle_action_any_seat(gs, user_id, action) ==
    CASE action.type = "DrawFromDeck" -> draw_from_deck(gs)
      [] action.type = "DrawFromDiscard" -> draw_from_discard(gs)
      [] action.type = "Discard" -> discard(gs, action.index)
      [] action.type = "DropHand" -> drop_hand(gs, user_id, action.combinations)
      [] action.type = "ShedCard" ->
            shed_card(gs, user_id, action.index,
                      action.target_player_id, action.target_combo_idx)
      [] action.type = "ReorderHand" -> reorder_hand(gs, user_id, action.hand)

\* Room::handle_action: the GameState it leaves and the Result whose Err it
\* sends to the caller as ServerMessage::Error
handle_action(gs, user_id, action) ==
    IF gs.players[gs.current_turn + 1].id # user_id THEN Err(gs, "Not your turn")
    ELSE CASE action.type = "DrawFromDeck" -> draw_from_deck(gs)
           [] action.type = "DrawFromDiscard" -> draw_from_discard(gs)
           [] action.type = "Discard" -> discard(gs, action.index)
           [] action.type = "DropHand" -> drop_hand(gs, user_id, action.combinations)
           [] action.type = "ShedCard" ->
                shed_card(gs, user_id, action.index,
                          action.target_player_id, action.target_combo_idx)
           [] action.type = "ReorderHand" -> reorder_hand(gs, user_id, action.hand)

\* events the room's channel holds at most (the channel's capacity is 100)
MaxInbox == 2

\* DropHand payloads of the clients
RoomSizeLists == {<<5, 7>>, <<3, 3>>}

\* the frames a client is explored sending: one of each ClientMessage variant
\* and a MarkReady frame
ClientFrames(gs, user_id) ==
    LET hand == HandOf(gs, user_id)
    IN  {Bare("DrawFromDeck"), Bare("DrawFromDiscard"), Bare("Discard"), Bare("MarkReady"),
         Frame("ShedCard", 0, <<>>, <<>>, user_id, 0),
         Frame("ReorderHand", 0, <<>>, Swap01(hand), "", 0)}
            \cup {Frame("DropHand", 0, Tile(hand, sizes), <<>>, "", 0) :
                        sizes \in RoomSizeLists}

QueuedDeckDraws ==
    Cardinality({i \in 1..Len(inbox) : inbox[i].action.type = "DrawFromDeck"})

\* draw and reorder frames are explored within the bounds of the exploration
FrameExplored(gs, frame) ==
    /\ frame.type = "ReorderHand" => MayReorder(gs, frame.hand)
    /\ frame.type \in {"DrawFromDeck", "DrawFromDiscard"} => MayDraw(gs)
    /\ frame.type = "DrawFromDeck" =>
            ~InRound(gs) \/ DeckDraws(gs) + QueuedDeckDraws < MaxDeckDraws

\* one iteration of recv_task in handle_socket for a frame that parses: the
\* action is sent to the room as RoomEvent::PlayerAction
WsForward ==
    \E user_id \in Ids(game_state) :
        \E frame \in ClientFrames(game_state, user_id) :
            /\ Parses(frame)
            /\ FrameExplored(game_state, frame)
            /\ Len(inbox) < MaxInbox
            /\ inbox' = Append(inbox, [event |-> "PlayerAction", user_id |-> user_id,
                                         action |-> frame])
            /\ UNCHANGED <<game_state, draws, ready_sent, last_error, wire_vars>>

\* one iteration of recv_task for a frame that does not parse: nothing is
\* sent to the room
WsDrop ==
    \E user_id \in Ids(game_state) :
        \E frame \in ClientFrames(game_state, user_id) :
            /\ ~Parses(frame)
            /\ ready_sent' = IF frame.type = "MarkReady"
                                /\ game_state.is_waiting_for_next_round
                             THEN ready_sent \cup {user_id} ELSE ready_sent
            /\ UNCHANGED <<game_state, draws, inbox, last_error, wire_vars>>

DrawsAfter(gs, action, r) ==
    IF ~r.ok THEN draws
    ELSE IF action.type \in {"DrawFromDeck", "DrawFromDiscard"}
    THEN [draws EXCEPT ![gs.current_turn + 1] = @ + 1]
    ELSE IF action.type = "Discard" THEN NoDraws(gs)
    ELSE draws

\* one iteration of the loop of Room::run for a PlayerAction event (no seat
\* of the rosters is a bot, so check_bot_turn spawns nothing)
RoomRun ==
    /\ inbox # <<>>
    /\ LET event == Head(inbox)
           r == handle_action(game_state, event.user_id, event.action)
       IN  /\ game_state' = r.gs
           /\ draws' = DrawsAfter(game_state, event.action, r)
           /\ last_error' = r.err
           /\ ready_sent' = IF r.gs.is_waiting_for_next_round THEN ready_sent ELSE {}
    /\ inbox' = Tail(inbox)
    /\ UNCHANGED wire_vars

NextRoom ==
    \/ WsForward
    \/ WsDrop
    \/ RoomRun

\* the room task handles every event its channel holds
SpecRoom == Init /\ [][NextRoom]_vars /\ WF_vars(RoomRun)

(***************************************************************************)
(* engine/combo_finder.rs: the meld candidates and the bajada solver       *)
(***************************************************************************)
\* the 0-based positions of a set, ascending (iter().enumerate().filter())
Ascending(positions) ==
    [n \in 1..Cardinality(positions) |->
        CHOOSE i \in positions : Cardinality({k \in positions : k <= i}) = n]

\* F applied to the value of v, which is computed once
With(v, F(_)) == CHOOSE r \in {F(x) : x \in {v}} : TRUE

\* the keys of a sequence, as a sequence
KeysOf(s, Key(_)) == [i \in 1..Len(s) |-> Key(s[i])] \o <<>>

\* sort_by_key, a stable sort: each element goes to the place its rank gives
SortByKey(s, Key(_)) ==
    With(KeysOf(s, Key), LAMBDA keys :
        With([i \in 1..Len(s) |->
                Cardinality({j \in 1..Len(s) :
                    \/ keys[j] < keys[i]
                    \/ keys[j] = keys[i] /\ j <= i})] \o <<>>,
             LAMBDA rank : [n \in 1..Len(s) |-> s[CHOOSE i \in 1..Len(s) : rank[i] = n]]))

\* dedup_by_key: of consecutive elements with the same key the first stays
DedupByKey(s, Key(_)) ==
    With(KeysOf(s, Key), LAMBDA keys :
        With(Ascending({i \in 1..Len(s) : i = 1 \/ keys[i] # keys[i - 1]}) \o <<>>,
             LAMBDA keep : [n \in 1..Len(keep) |-> s[keep[n]]]))

\* the value of a HandMask; a mask is kept as the set of its set bits, and
\* hand positions stay below the 16 bits of the u16
MaskValue(mask) == SumSeq([b \in 1..16 |-> IF (b - 1) \in mask THEN 2 ^ (b - 1) ELSE 0])

\* MeldCandidate::new
MeldCandidate(meld_type, card_indices) ==
    [meld_type |-> meld_type,
     card_indices |-> card_indices,
     mask |-> {card_indices[k] : k \in 1..Len(card_indices)}]

joker_indices(hand) == Ascending({i \in 0..(Len(hand) - 1) : is_joker(hand[i + 1])})

\* the orders in which by_value.values() is explored iterating: by_value is
\* a HashMap, and its keys come rising or falling
ByValueOrders(hand) ==
    LET values == {hand[i].value : i \in {k \in 1..Len(hand) : ~is_joker(hand[k])}}
        rising == Ascending(values)
    IN  {rising, Reverse(rising)}

\* the candidates find_all_trio_candidates pushes for one value
trio_candidates_of(indices, jokers) ==
    LET n == Len(indices)
        slices == Flatten([start \in 1..n |->
                    [e \in 1..(IF n - start >= 2 THEN n - start - 1 ELSE 0) |->
                        MeldCandidate("Trio", SubSeq(indices, start, start + e + 1))]])
        pairs == Flatten([j \in 1..Len(jokers) |->
                    Flatten([i \in 1..n |->
                        [d \in 1..(n - i) |->
                            MeldCandidate("Trio", <<indices[i], indices[i + d], jokers[j]>>)]])])
    IN  slices \o (IF n >= 2 /\ jokers # <<>> THEN pairs ELSE <<>>)

\* find_all_trio_candidates, by_value iterated in the order `order`
find_all_trio_candidates(hand, order) ==
    Flatten([v \in 1..Len(order) |->
        trio_candidates_of(
            Ascending({i \in 0..(Len(hand) - 1) :
                        ~is_joker(hand[i + 1]) /\ hand[i + 1].value = order[v]}),
            joker_indices(hand))])

\* sub-runs from three indices up
emit_subruns_short(indices) ==
    [start \in 1..(IF Len(indices) >= 4 THEN Len(indices) - 2 ELSE 0) |->
        MeldCandidate("Escala", SubSeq(indices, start, Len(indices)))]

\* emit_subruns: the suffixes of at least 4 indices, longest first
emit_subruns(indices) ==
    [start \in 1..(IF Len(indices) >= 4 THEN Len(indices) - 3 ELSE 0) |->
        MeldCandidate("Escala", SubSeq(indices, start, Len(indices)))]

\* the inner loop of find_all_escala_candidates from position k of
\* suit_cards on: the candidates it emits.  It stops at 13 selected indices,
\* which it has then emitted.
RECURSIVE escala_walk(_, _, _, _, _, _)
escala_walk(suit_cards, jokers, k, selected_indices, prev_val, joker_used) ==
    IF k > Len(suit_cards) THEN <<>>
    ELSE LET cur_val == suit_cards[k][1]
             cur_hand_idx == suit_cards[k][2]
             gap == IF cur_val >= prev_val THEN cur_val - prev_val ELSE 0
             Step(selected, used) ==
                (IF Len(selected) >= 4 THEN emit_subruns(selected) ELSE <<>>)
                    \o (IF Len(selected) = 13 THEN <<>>
                        ELSE escala_walk(suit_cards, jokers, k + 1, selected, cur_val, used))
         IN  IF gap = 0
             THEN escala_walk(suit_cards, jokers, k + 1, selected_indices, prev_val, joker_used)
             ELSE IF gap = 1
             THEN Step(Append(selected_indices, cur_hand_idx), joker_used)
             ELSE IF gap = 2 /\ ~joker_used /\ jokers # <<>>
             THEN Step(selected_indices \o <<jokers[1], cur_hand_idx>>, TRUE)
             ELSE <<>>

\* the loop over the starts, from start on; a walk that reached 13 selected
\* indices ends it (break 'outer)
RECURSIVE escala_starts(_, _, _)
escala_starts(suit_cards, jokers, start) ==
    IF start > Len(suit_cards) THEN <<>>
    ELSE LET walk == escala_walk(suit_cards, jokers, start + 1,
                                 <<suit_cards[start][2]>>, suit_cards[start][1], FALSE)
         IN  IF \E c \in 1..Len(walk) : Len(walk[c].card_indices) = 13 THEN walk
             ELSE walk \o escala_starts(suit_cards, jokers, start + 1)

\* find_all_escala_candidates
find_all_escala_candidates(hand) ==
    LET jokers == joker_indices(hand)
        OfSuit(s) ==
            LET at == Ascending({i \in 0..(Len(hand) - 1) :
                                    ~is_joker(hand[i + 1]) /\ hand[i + 1].suit = Suit[s]})
                suit_cards == SortByKey([n \in 1..Len(at) |-> <<hand[at[n] + 1].value, at[n]>>],
                                        LAMBDA p : p[1])
            IN  IF Len(suit_cards) < 4 /\ (Len(suit_cards) < 3 \/ jokers = <<>>) THEN <<>>
                ELSE escala_starts(suit_cards, jokers, 1)
        candidates == Flatten([s \in 1..Len(Suit) |-> OfSuit(s)])
    IN  DedupByKey(SortByKey(candidates \o <<>>, LAMBDA c : MaskValue(c.mask)) \o <<>>,
                   LAMBDA c : MaskValue(c.mask))

\* count_partial_melds
count_partial_melds(cards) ==
    Cardinality({p \in (1..Len(cards)) \X (1..Len(cards)) :
        /\ p[1] < p[2]
        /\ ~is_joker(cards[p[1]]) /\ ~is_joker(cards[p[2]])
        /\ \/ cards[p[1]].value = cards[p[2]].value
           \/ /\ cards[p[1]].suit = cards[p[2]].suit
              /\ (IF cards[p[1]].value < cards[p[2]].value
                  THEN cards[p[2]].value - cards[p[1]].value
                  ELSE cards[p[1]].value - cards[p[2]].value) \in {1, 2}})

\* HandScore
HandScore(remaining_points, neg_partial_melds) ==
    [remaining_points |-> remaining_points, neg_partial_melds |-> neg_partial_melds]

\* the derived Ord of HandScore: by remaining_points, then neg_partial_melds
HandScoreLess(a, b) ==
    \/ a.remaining_points < b.remaining_points
    \/ /\ a.remaining_points = b.remaining_points
       /\ a.neg_partial_melds < b.neg_partial_melds

\* score_remaining_hand
score_remaining_hand(hand, used_mask) ==
    LET remaining_cards == [n \in 1..(Len(hand) - Cardinality(used_mask \cap (0..(Len(hand) - 1)))) |->
                                hand[Ascending((0..(Len(hand) - 1)) \ used_mask)[n] + 1]]
    IN  HandScore(calculate_hand_points(remaining_cards),
                  0 - count_partial_melds(remaining_cards))

\* what find_best_bajada returns: None, or Some of its melds
NoBajada == [found |-> FALSE, melds |-> <<>>]

Bajada(melds) == [found |-> TRUE, melds |-> melds]

\* best_solution and best_score of find_best_bajada before solve runs: the
\* score is (u32::MAX, i32::MIN), below which the score of every hand lies
NoBest == [solution |-> NoBajada, score |-> HandScore(2147483647, -2147483647)]

\* solve; best is what it leaves in best_solution and best_score.
\* solve_each is one of its two loops over the candidates lo..hi of the list
\* (1-based), run as the first half followed by the second, and tells whether
\* the loop returned from solve.
RECURSIVE solve(_, _, _, _, _, _, _, _, _, _, _)
RECURSIVE solve_each(_, _, _, _, _, _, _, _, _, _, _, _, _, _)
\* the loops without the test of the candidate's mask against used_mask
solve_each_overlapping(meld_type, lo, hi, hand, trios, escalas, chosen_trios, chosen_escalas, req_trios, req_escalas, used_mask, current, minimize_points, best) ==
    LET list == IF meld_type = "Trio" THEN trios ELSE escalas
    IN  IF lo > hi THEN [best |-> best, returned |-> FALSE]
        ELSE IF lo < hi
        THEN With(solve_each(meld_type, lo, (lo + hi) \div 2, hand, trios, escalas,
                             chosen_trios, chosen_escalas, req_trios, req_escalas,
                             used_mask, current, minimize_points, best),
                  LAMBDA first :
                    IF first.returned THEN first
                    ELSE solve_each(meld_type, (lo + hi) \div 2 + 1, hi, hand, trios,
                                    escalas, chosen_trios, chosen_escalas, req_trios,
                                    req_escalas, used_mask, current, minimize_points,
                                    first.best))
        ELSE With(solve(hand, trios, escalas,
                        chosen_trios + (IF meld_type = "Trio" THEN 1 ELSE 0),
                        chosen_escalas + (IF meld_type = "Trio" THEN 0 ELSE 1),
                        req_trios, req_escalas, used_mask \cup list[lo].mask,
                        Append(current, list[lo]), minimize_points, best),
                  LAMBDA after :
                    [best |-> after, returned |-> ~minimize_points /\ after.solution.found])

solve_each(meld_type, lo, hi, hand, trios, escalas, chosen_trios, chosen_escalas, req_trios, req_escalas, used_mask, current, minimize_points, best) ==
    LET list == IF meld_type = "Trio" THEN trios ELSE escalas
    IN  IF lo > hi THEN [best |-> best, returned |-> FALSE]
        ELSE IF lo < hi
        THEN With(solve_each(meld_type, lo, (lo + hi) \div 2, hand, trios, escalas,
                             chosen_trios, chosen_escalas, req_trios, req_escalas,
                             used_mask, current, minimize_points, best),
                  LAMBDA first :
                    IF first.returned THEN first
                    ELSE solve_each(meld_type, (lo + hi) \div 2 + 1, hi, hand, trios,
                                    escalas, chosen_trios, chosen_escalas, req_trios,
                                    req_escalas, used_mask, current, minimize_points,
                                    first.best))
        ELSE IF list[lo].mask \cap used_mask # {} THEN [best |-> best, returned |-> FALSE]
        ELSE With(solve(hand, trios, escalas,
                        chosen_trios + (IF meld_type = "Trio" THEN 1 ELSE 0),
                        chosen_escalas + (IF meld_type = "Trio" THEN 0 ELSE 1),
                        req_trios, req_escalas, used_mask \cup list[lo].mask,
                        Append(current, list[lo]), minimize_points, best),
                  LAMBDA after :
                    [best |-> after, returned |-> ~minimize_points /\ after.solution.found])

solve(hand, trios, escalas, chosen_trios, chosen_escalas, req_trios, req_escalas, used_mask, current, minimize_points, best) ==
    IF chosen_trios = req_trios /\ chosen_escalas = req_escalas
    THEN With(score_remaining_hand(hand, used_mask), LAMBDA score :
            IF ~minimize_points \/ HandScoreLess(score, best.score)
            THEN [solution |-> Bajada(current), score |-> score]
            ELSE best)
    ELSE IF ~minimize_points /\ best.solution.found THEN best
    ELSE IF Len(hand) - Cardinality(used_mask)
                < 3 * (IF req_trios > chosen_trios THEN req_trios - chosen_trios ELSE 0)
                  + 4 * (IF req_escalas > chosen_escalas THEN req_escalas - chosen_escalas ELSE 0)
    THEN best
    ELSE With(IF chosen_trios < req_trios
              THEN solve_each("Trio", 1, Len(trios), hand, trios, escalas, chosen_trios,
                              chosen_escalas, req_trios, req_escalas, used_mask,
                              current, minimize_points, best)
              ELSE [best |-> best, returned |-> FALSE],
              LAMBDA with_trio :
                IF with_trio.returned \/ ~(chosen_escalas < req_escalas) THEN with_trio.best
                ELSE solve_each("Escala", 1, Len(escalas), hand, trios, escalas,
                                chosen_trios, chosen_escalas, req_trios, req_escalas,
                                used_mask, current, minimize_points, with_trio.best).best)

\* find_best_bajada, by_value iterated in the order `order`
find_best_bajada(hand, req_trios, req_escalas, minimize_points, order) ==
    With(find_all_trio_candidates(hand, order) \o <<>>, LAMBDA trios :
        With(find_all_escala_candidates(hand) \o <<>>, LAMBDA escalas :
            solve(hand, trios, escalas, 0, 0, req_trios, req_escalas, {}, <<>>,
                  minimize_points, NoBest).solution))

(***************************************************************************)
(* engine/bot.rs                                                           *)
(***************************************************************************)
BotDifficulty == {"Easy", "Medium", "Hard"}

\* Option<ClientMessage>::None
NoMessage == Bare("None")

\* the values rand gives the Easy bot: rng.random_bool(0.3) and the index
\* choose() picks
Rng(random_bool, choose) == [random_bool |-> random_bool, choose |-> choose]

\* detect_phase
detect_phase(player) ==
    IF player.has_dropped_hand THEN "AfterBajada"
    ELSE IF Len(player.hand) = 13 THEN "AfterDraw"
    ELSE "NeedDraw"

Abs(x) == IF x < 0 THEN -x ELSE x

\* card_synergy_score
card_synergy_score(hand, target) ==
    IF is_joker(target) THEN 100
    ELSE SumSeq([i \in 1..Len(hand) |->
            IF is_joker(hand[i]) THEN 0
            ELSE (IF hand[i].value = target.value THEN 15 ELSE 0)
                 + (IF hand[i].suit # target.suit THEN 0
                    ELSE IF Abs(hand[i].value - target.value) = 1 THEN 10
                    ELSE IF Abs(hand[i].value - target.value) = 2 THEN 5
                    ELSE 0)])

\* decide_draw
decide_draw(game, player, difficulty, rng) ==
    IF game.discard_pile = <<>> THEN Bare("DrawFromDeck")
    ELSE LET should_draw_discard ==
                IF difficulty = "Easy" THEN rng.random_bool
                ELSE card_synergy_score(player.hand, Last(game.discard_pile)) >= 15
         IN  IF should_draw_discard THEN Bare("DrawFromDiscard") ELSE Bare("DrawFromDeck")

\* try_bajarse, given what find_best_bajada(&player.hand, req_trios,
\* req_escalas, minimize_points) returned
try_bajarse(game, player, difficulty, bajada) ==
    IF ~bajada.found THEN NoMessage
    ELSE Frame("DropHand", 0,
               [m \in 1..Len(bajada.melds) |->
                    [k \in 1..Len(bajada.melds[m].card_indices) |->
                        player.hand[bajada.melds[m].card_indices[k] + 1]]],
               <<>>, "", 0)

\* the first index of the least score (the loops replace the best index only
\* on a strictly lower score)
FirstLowest(scores) ==
    (CHOOSE i \in 1..Len(scores) :
        /\ \A j \in 1..Len(scores) : scores[i] <= scores[j]
        /\ \A j \in 1..(i - 1) : scores[j] > scores[i]) - 1

\* find_lowest_synergy_index
find_lowest_synergy_index(hand) ==
    IF hand = <<>> THEN 0
    ELSE FirstLowest([i \in 1..Len(hand) |->
                        card_synergy_score(RemoveAt(hand, i - 1), hand[i])])

\* defensive_penalty, in tenths
defensive_penalty(card, game, my_id) ==
    SumSeq([p \in 1..Len(game.players) |->
        IF game.players[p].id = my_id \/ ~game.players[p].has_dropped_hand THEN 0
        ELSE 100 * Cardinality({c \in 1..Len(game.players[p].dropped_combinations) :
                    can_shed(card, game.players[p].dropped_combinations[c]) # "None"})])

\* find_best_discard_index_hard: synergy - 0.1 * points + defense, in tenths
find_best_discard_index_hard(game, player) ==
    IF player.hand = <<>> THEN 0
    ELSE FirstLowest([i \in 1..Len(player.hand) |->
            10 * card_synergy_score(RemoveAt(player.hand, i - 1), player.hand[i])
                - points(player.hand[i])
                + defensive_penalty(player.hand[i], game, player.id)])

\* decide_discard
decide_discard(game, player, difficulty, rng) ==
    IF player.hand = <<>> THEN Frame("Discard", 0, <<>>, <<>>, "", 0)
    ELSE Frame("Discard",
               CASE difficulty = "Easy" -> rng.choose
                 [] difficulty = "Medium" -> find_lowest_synergy_index(player.hand)
                 [] difficulty = "Hard" -> find_best_discard_index_hard(game, player),
               <<>>, <<>>, "", 0)

\* a bot that tries to go down on its opening turn as well
play_bot_turn_first_turn(game, player_id, difficulty, rng, bajada) ==
    IF game.current_turn >= Len(game.players) THEN NoMessage
    ELSE LET player == game.players[game.current_turn + 1]
             phase == detect_phase(player)
         IN  IF player.id # player_id THEN NoMessage
             ELSE CASE phase = "NeedDraw" -> decide_draw(game, player, difficulty, rng)
                    [] phase = "AfterDraw" ->
                        IF try_bajarse(game, player, difficulty, bajada) # NoMessage
                        THEN try_bajarse(game, player, difficulty, bajada)
                        ELSE decide_discard(game, player, difficulty, rng)
                    [] phase = "AfterBajada" -> decide_discard(game, player, difficulty, rng)

\* play_bot_turn
play_bot_turn(game, player_id, difficulty, rng, bajada) ==
    IF game.current_turn >= Len(game.players) THEN NoMessage
    ELSE LET player == game.players[game.current_turn + 1]
             phase == detect_phase(player)
         IN  IF player.id # player_id THEN NoMessage
             ELSE CASE phase = "NeedDraw" -> decide_draw(game, player, difficulty, rng)
                    [] phase = "AfterDraw" ->
                        IF player.turns_played > 0
                           /\ try_bajarse(game, player, difficulty, bajada) # NoMessage
                        THEN try_bajarse(game, player, difficulty, bajada)
                        ELSE decide_discard(game, player, difficulty, rng)
                    [] phase = "AfterBajada" -> decide_discard(game, player, difficulty, rng)

(***************************************************************************)
(* The room actor with its outbound channels and its bot timers:           *)
(* matchmaking/room.rs, api/ws.rs, api/events.rs                           *)
(***************************************************************************)
\* RoundType::description (the accents of the source's strings are left out)
description(round) ==
    CASE round = "TwoTrios" -> "2 Trios (6 cards)"
      [] round = "OneTrioOneEscala" -> "1 Trio, 1 Escala (7 cards)"
      [] round = "TwoEscalas" -> "2 Escalas (8 cards)"
      [] round = "ThreeTrios" -> "3 Trios (9 cards)"
      [] round = "TwoTriosOneEscala" -> "2 Trios, 1 Escala (10 cards)"
      [] round = "OneTrioTwoEscalas" -> "1 Trio, 2 Escalas (11 cards)"
      [] round = "ThreeEscalas" -> "3 Escalas (12 cards)"
      [] round = "FourTrios" -> "4 Trios (12 cards)"
      [] round = "EscalaReal" -> "Escala Real (13 cards, same suit)"

\* a projection that would carry the hand along with the public fields
from_player_state_open(state) ==
    [id |-> state.id,
     hand_count |-> Len(state.hand),
     hand |-> state.hand,
     has_dropped_hand |-> state.has_dropped_hand,
     points |-> state.points,
     dropped_combinations |-> state.dropped_combinations,
     turns_played |-> state.turns_played,
     has_drawn_this_turn |-> state.has_drawn_this_turn,
     dropped_hand_this_turn |-> state.dropped_hand_this_turn]

\* SanitizedPlayerState::from_player_state
from_player_state(state) ==
    [id |-> state.id,
     hand_count |-> Len(state.hand),
     has_dropped_hand |-> state.has_dropped_hand,
     points |-> state.points,
     dropped_combinations |-> state.dropped_combinations,
     turns_played |-> state.turns_played,
     has_drawn_this_turn |-> state.has_drawn_this_turn,
     dropped_hand_this_turn |-> state.dropped_hand_this_turn]

\* ServerMessage::Error
ErrorMessage(message) == [type |-> "Error", message |-> message]

\* ServerMessage::MatchFound (the room id is a fresh uuid)
MatchFound(players) == [type |-> "MatchFound", players |-> players]

\* Room::build_state_message_for_user: the ServerMessage::GameStateUpdate
build_state_message_for_user(gs, target_user_id) ==
    [type |-> "GameStateUpdate",
     my_hand |-> IF FindPlayer(gs, target_user_id) < 0 THEN <<>>
                 ELSE PlayerById(gs, target_user_id).hand,
     players |-> [i \in 1..Len(gs.players) |-> from_player_state(gs.players[i])],
     current_round_index |-> gs.round_index,
     current_round_rules |-> description(gs.current_round),
     current_turn_index |-> gs.current_turn,
     discard_pile_top |-> IF gs.discard_pile = <<>> THEN NoCard ELSE Last(gs.discard_pile),
     is_game_over |-> gs.is_game_over,
     required_trios |-> get_requirements(gs.current_round)[1],
     required_escalas |-> get_requirements(gs.current_round)[2]]

\* the ServerMessage::RoundEnded broadcast_round_ended builds
RoundEnded(result) ==
    [type |-> "RoundEnded",
     round_index |-> result.finished_round_index,
     round_name |-> result.finished_round_name,
     winner_id |-> result.winner_id,
     player_scores |-> result.player_scores,
     next_round_index |-> result.next_round_index,
     next_round_name |-> result.next_round_name,
     is_game_over |-> result.is_game_over]

\* a sender.send(msg).await the room task has to complete
Send(to, msg) == [to |-> to, msg |-> msg]

\* Room::send_error: nothing is sent to an id without a channel
send_error(channels, user_id, msg) ==
    IF user_id \in channels THEN <<Send(user_id, ErrorMessage(msg))>> ELSE <<>>

\* Room::send_state_to_user
send_state_to_user(gs, channels, user_id) ==
    IF user_id \in channels
    THEN <<Send(user_id, build_state_message_for_user(gs, user_id))>> ELSE <<>>

\* the orders in which a HashMap with these keys may be iterated
Orders(keys) ==
    {order \in [1..Cardinality(keys) -> keys] :
        \A i, j \in 1..Cardinality(keys) : order[i] = order[j] => i = j}

\* Room::broadcast_round_ended, iterating player_channels in the given order
broadcast_round_ended(order, result) ==
    [i \in 1..Len(order) |-> Send(order[i], RoundEnded(result))]

\* Room::broadcast_state
broadcast_state(gs, order) ==
    [i \in 1..Len(order) |-> Send(order[i], build_state_message_for_user(gs, order[i]))]

\* the sends of Room::handle_action for the Result r of the engine call
handle_action_sends(gs, channels, user_id, action, r) ==
    IF r.ok THEN <<>>
    ELSE send_error(channels, user_id, r.err)
            \o (IF action.type = "ReorderHand"
                   /\ gs.players[gs.current_turn + 1].id = user_id
                THEN send_state_to_user(r.gs, channels, user_id) ELSE <<>>)

\* the PlayerAction arm of Room::run with broadcast_state before
\* broadcast_round_ended
player_action_sends_state_first(gs, order, user_id, action, r) ==
    LET channels == {order[i] : i \in 1..Len(order)}
    IN  handle_action_sends(gs, channels, user_id, action, r)
            \o broadcast_state(r.gs, order)
            \o (IF r.result = NoResult THEN <<>> ELSE broadcast_round_ended(order, r.result))

\* the PlayerAction arm of Room::run without its broadcast_state
player_action_sends_no_state(gs, order, user_id, action, r) ==
    LET channels == {order[i] : i \in 1..Len(order)}
    IN  handle_action_sends(gs, channels, user_id, action, r)
            \o (IF r.result = NoResult THEN <<>> ELSE broadcast_round_ended(order, r.result))

\* the sends of the PlayerAction arm of Room::run, in order
player_action_sends(gs, order, user_id, action, r) ==
    LET channels == {order[i] : i \in 1..Len(order)}
    IN  handle_action_sends(gs, channels, user_id, action, r)
            \o (IF r.result = NoResult THEN <<>> ELSE broadcast_round_ended(order, r.result))
            \o broadcast_state(r.gs, order)

\* RoomEvent
PlayerJoined(user_id) ==
    [event |-> "PlayerJoined", user_id |-> user_id, action |-> Bare("None")]

PlayerLeft(user_id) ==
    [event |-> "PlayerLeft", user_id |-> user_id, action |-> Bare("None")]

PlayerAction(user_id, action) ==
    [event |-> "PlayerAction", user_id |-> user_id, action |-> action]

\* messages a client's channel holds at most (its capacity is 100)
ChannelCapacity == 2

\* a bot decides on a draw only while its seat has completed fewer turns of
\* the round than this
MaxBotTurns == 3

\* the channel of a socket: not yet created, open, or closed (its receiver
\* dropped)
Channel(state, queue) == [state |-> state, queue |-> queue]

\* sender.send(msg).await for each send in turn: a send to a closed channel
\* returns an error at once, a send to a full channel waits for capacity.
\* <<the channels afterwards, the sends not yet completed>>
RECURSIVE Deliver(_, _)
Deliver(rx, sends) ==
    IF sends = <<>> THEN <<rx, <<>>>>
    ELSE LET to == Head(sends).to
         IN  IF rx[to].state # "open" THEN Deliver(rx, Tail(sends))
             ELSE IF Len(rx[to].queue) >= ChannelCapacity THEN <<rx, sends>>
             ELSE Deliver([rx EXCEPT ![to].queue = Append(@, Head(sends).msg)], Tail(sends))

\* the difficulty check_bot_turn reads from the id
Difficulty(user_id) ==
    IF user_id = "bot_hard" THEN "Hard"
    ELSE IF user_id = "bot_medium" THEN "Medium"
    ELSE "Easy"

\* the task check_bot_turn spawns: the bot's id and difficulty and a clone of
\* the GameState
BotTask(uid, gs) == [uid |-> uid, diff |-> Difficulty(uid), gs |-> gs]

\* a check_bot_turn that schedules a bot seat whether or not it is in turn
check_bot_turn_any_turn(gs, pending, tasks) ==
    IF pending THEN <<pending, tasks>>
    ELSE IF \E i \in 1..Len(gs.players) : is_bot(gs.players[i].id)
    THEN <<TRUE, Append(tasks, BotTask(
                    gs.players[CHOOSE i \in 1..Len(gs.players) : is_bot(gs.players[i].id)].id,
                    gs))>>
    ELSE <<pending, tasks>>

\* Room::check_bot_turn: <<bot_action_pending, the spawned tasks>>
check_bot_turn(gs, pending, tasks) ==
    IF pending THEN <<pending, tasks>>
    ELSE IF gs.current_turn < Len(gs.players) /\ is_bot(gs.players[gs.current_turn + 1].id)
    THEN <<TRUE, Append(tasks, BotTask(gs.players[gs.current_turn + 1].id, gs))>>
    ELSE <<pending, tasks>>

\* the player lists rooms with a bot seat are created with
WireRosters == {<<"alice", "bot_medium">>}

\* the deck order deck.shuffle() is explored producing at such a room
WireShuffles == {DeckWithTop(TopA)}

\* Room::new followed by the first lines of Room::run
InitWire ==
    \E roster \in WireRosters, shuffled \in WireShuffles :
        LET gs == start_round(new(roster), shuffled)
            spawned == check_bot_turn(gs, FALSE, <<>>)
        IN  /\ game_state = gs
            /\ draws = [i \in 1..Len(roster) |-> 0]
            /\ inbox = <<>>
            /\ ready_sent = {}
            /\ last_error = ""
            /\ client_rx = [id \in NonBots(gs) |-> Channel("idle", <<>>)]
            /\ player_channels = {}
            /\ sending = <<>>
            /\ bot_action_pending = spawned[1]
            /\ bot_tasks = spawned[2]

\* handle_socket once the match is made: MatchFound goes onto the socket's
\* channel and PlayerJoined, with the channel's sender, to the room
ClientJoin ==
    \E user_id \in DOMAIN client_rx :
        /\ client_rx[user_id].state = "idle"
        /\ client_rx' = [client_rx EXCEPT ![user_id] =
                            Channel("open", <<MatchFound([i \in 1..Len(game_state.players) |->
                                                            game_state.players[i].id])>>)]
        /\ inbox' = Append(inbox, PlayerJoined(user_id))
        /\ UNCHANGED <<game_state, draws, ready_sent, last_error,
                       player_channels, sending, bot_action_pending, bot_tasks>>

\* one iteration of send_task: the next message of the channel goes down the
\* websocket
ClientRead ==
    \E user_id \in DOMAIN client_rx :
        /\ client_rx[user_id].state = "open"
        /\ client_rx[user_id].queue # <<>>
        /\ client_rx' = [client_rx EXCEPT ![user_id].queue = Tail(@)]
        /\ UNCHANGED <<game_state, draws, inbox, ready_sent, last_error,
                       player_channels, sending, bot_action_pending, bot_tasks>>

\* the frames a client with a seat at a room with a bot is explored sending
WireFrames(gs, user_id) ==
    LET hand == HandOf(gs, user_id)
    IN  {Bare("DrawFromDeck"), Bare("Discard"),
         Frame("ReorderHand", 0, <<>>, Swap01(hand), "", 0),
         Frame("DropHand", 0, Tile(hand, <<5, 7>>), <<>>, "", 0)}

\* the seat in turn is explored reordering its hand within the bounds of the
\* exploration, a seat out of turn with any hand
WireExplored(gs, user_id, frame) ==
    IF frame.type = "ReorderHand" /\ user_id # CurrentPlayer(gs).id THEN TRUE
    ELSE FrameExplored(gs, frame)

\* one iteration of recv_task for a frame that parses
ClientFrame ==
    \E user_id \in DOMAIN client_rx :
        \E frame \in WireFrames(game_state, user_id) :
            /\ client_rx[user_id].state = "open"
            /\ WireExplored(game_state, user_id, frame)
            /\ Len(inbox) < MaxInbox
            /\ inbox' = Append(inbox, PlayerAction(user_id, frame))
            /\ UNCHANGED <<game_state, draws, ready_sent, last_error, client_rx,
                           player_channels, sending, bot_action_pending, bot_tasks>>

\* the socket closes: both tasks end, the receiver of the channel is dropped
\* and PlayerLeft goes to the room
ClientClose ==
    \E user_id \in DOMAIN client_rx :
        /\ client_rx[user_id].state = "open"
        /\ client_rx' = [client_rx EXCEPT ![user_id] = Channel("closed", <<>>)]
        /\ inbox' = Append(inbox, PlayerLeft(user_id))
        /\ UNCHANGED <<game_state, draws, ready_sent, last_error,
                       player_channels, sending, bot_action_pending, bot_tasks>>

\* results of find_best_bajada a claim about play_bot_turn alone is checked
\* for: None, and the hand cut into the groups of RoomSizeLists where these
\* are melds of the kinds the round asks for
BajadaChoices(game, player) ==
    LET indices == [i \in 1..Len(player.hand) |-> i - 1]
        Cards(meld) == [k \in 1..Len(meld) |-> player.hand[meld[k] + 1]]
        req == get_requirements(game.current_round)
        Meets(melds) ==
            /\ \A m \in 1..Len(melds) : ComboKind(Cards(melds[m])) # "invalid"
            /\ Cardinality({m \in 1..Len(melds) : ComboKind(Cards(melds[m])) = "trio"}) = req[1]
            /\ Cardinality({m \in 1..Len(melds) : ComboKind(Cards(melds[m])) = "escala"}) = req[2]
        Melds(melds) == [m \in 1..Len(melds) |->
                            MeldCandidate(IF ComboKind(Cards(melds[m])) = "trio" THEN "Trio" ELSE "Escala",
                                          melds[m])]
    IN  {NoBajada} \cup {Bajada(Melds(Tile(indices, sizes))) :
                            sizes \in {s \in RoomSizeLists : Meets(Tile(indices, s))}}

\* the values rand is explored giving: only the Easy bot draws any; choose
\* picks the first or the last position
RngChoices(player, difficulty) ==
    IF difficulty # "Easy" THEN {Rng(FALSE, 0)}
    ELSE {Rng(b, i) : b \in BOOLEAN,
                      i \in {0} \cup (IF player.hand = <<>> THEN {} ELSE {Len(player.hand) - 1})}

\* the task check_bot_turn spawned, after its sleep: play_bot_turn on the
\* snapshot, and the action, if any, goes to the room as PlayerAction
BotTimer ==
    \E t \in 1..Len(bot_tasks) :
        LET task == bot_tasks[t]
            player == CurrentPlayer(task.gs)
            req == get_requirements(task.gs.current_round)
        IN  \E rng \in RngChoices(player, task.diff),
               order \in ByValueOrders(player.hand) :
                LET bajada == find_best_bajada(player.hand, req[1], req[2],
                                               task.diff # "Easy", order)
                    action == play_bot_turn(task.gs, task.uid, task.diff, rng, bajada)
                IN  /\ detect_phase(player) = "NeedDraw" => player.turns_played < MaxBotTurns
                    /\ bot_tasks' = RemoveAt(bot_tasks, t - 1)
                    /\ inbox' = IF action = NoMessage THEN inbox
                                ELSE Append(inbox, PlayerAction(task.uid, action))
                    /\ UNCHANGED <<game_state, draws, ready_sent, last_error, client_rx,
                                   player_channels, sending, bot_action_pending>>

\* the room task from a list of sends up to its next suspension: the sends
\* are completed in turn, and once none is left check_bot_turn runs and the
\* task is back at receiver.recv()
Proceed(gs, sends, pending) ==
    LET d == Deliver(client_rx, sends)
        c == IF d[2] = <<>> THEN check_bot_turn(gs, pending, bot_tasks)
             ELSE <<pending, bot_tasks>>
    IN  /\ client_rx' = d[1]
        /\ sending' = d[2]
        /\ bot_action_pending' = c[1]
        /\ bot_tasks' = c[2]

\* Room::run, RoomEvent::PlayerJoined
RoomJoined ==
    /\ sending = <<>>
    /\ inbox # <<>>
    /\ Head(inbox).event = "PlayerJoined"
    /\ inbox' = Tail(inbox)
    /\ player_channels' = player_channels \cup {Head(inbox).user_id}
    /\ \E order \in Orders(player_channels') :
            Proceed(game_state, broadcast_state(game_state, order), bot_action_pending)
    /\ UNCHANGED <<game_state, draws, ready_sent, last_error>>

\* Room::run, RoomEvent::PlayerLeft
RoomLeft ==
    /\ sending = <<>>
    /\ inbox # <<>>
    /\ Head(inbox).event = "PlayerLeft"
    /\ inbox' = Tail(inbox)
    /\ player_channels' = player_channels \ {Head(inbox).user_id}
    /\ Proceed(game_state, <<>>, bot_action_pending)
    /\ UNCHANGED <<game_state, draws, ready_sent, last_error>>

\* Room::run, RoomEvent::PlayerAction
RoomAction ==
    /\ sending = <<>>
    /\ inbox # <<>>
    /\ Head(inbox).event = "PlayerAction"
    /\ inbox' = Tail(inbox)
    /\ LET event == Head(inbox)
           r == handle_action(game_state, event.user_id, event.action)
           pending == IF is_bot(event.user_id) THEN FALSE ELSE bot_action_pending
       IN  /\ game_state' = r.gs
           /\ draws' = DrawsAfter(game_state, event.action, r)
           /\ last_error' = r.err
           /\ \E order \in Orders(player_channels) :
                Proceed(r.gs,
                        player_action_sends(game_state, order, event.user_id, event.action, r),
                        pending)
    /\ UNCHANGED <<ready_sent, player_channels>>

\* the room task resumes in a send that waited for capacity
RoomResume ==
    /\ sending # <<>>
    /\ Deliver(client_rx, sending)[2] # sending
    /\ Proceed(game_state, sending, bot_action_pending)
    /\ UNCHANGED <<game_state, draws, inbox, ready_sent, last_error, player_channels>>

NextWire ==
    \/ ClientJoin
    \/ ClientFrame
    \/ ClientRead
    \/ ClientClose
    \/ BotTimer
    \/ RoomJoined
    \/ RoomLeft
    \/ RoomAction
    \/ RoomResume

\* the room task and the bot's task run whenever they can; no client has to
\* read its channel
SpecWire ==
    /\ InitWire
    /\ [][NextWire]_vars
    /\ WF_vars(RoomJoined) /\ WF_vars(RoomLeft) /\ WF_vars(RoomAction)
    /\ WF_vars(RoomResume) /\ WF_vars(BotTimer)

(***************************************************************************)
(* A room whose seats are both bots: the bot tasks and the room task play  *)
(* by themselves.  The hands are inputs of the bot policy and of the       *)
(* bajada solver, one table per round type.                                *)
(***************************************************************************)
\* cards that hold no meld: twelve values, the suits in turn
Loose ==
    <<Spd(2), Hrt(3), Dia(4), Clb(5), Spd(6), Hrt(7),
      Dia(8), Clb(9), Spd(10), Hrt(11), Dia(12), Clb(13)>>

\* the cards the deck gives after the deal when they do not matter
LooseDraws == <<Dia(14), Clb(2), Spd(3), Hrt(9), Dia(10), Clb(6)>>

\* a table: the round, the 12 cards dealt to the seat that opens the round,
\* the 12 cards of the other seat, the card turned onto the discard pile and
\* the cards the deck gives next
BotCase(round_index, hand, other, pozo, next) ==
    [round_index |-> round_index, hand |-> hand, other |-> other,
     pozo |-> pozo, next |-> next]

BotCases ==
    {\* two trios dealt in round 0
     BotCase(0, <<Hrt(7), Dia(7), Clb(7), Hrt(11), Dia(11), Clb(11),
                  Clb(2), Dia(4), Spd(9), Hrt(13), Clb(10), Spd(14)>>,
             Loose, Hrt(5), LooseDraws),
     \* round 0, twice six of a value and a card to discard after the draw
     BotCase(0, <<Hrt(7), Dia(7), Clb(7), Spd(7), Hrt(7), Dia(7),
                  Hrt(11), Dia(11), Clb(11), Spd(11), Hrt(11), Dia(11)>>,
             Loose, Hrt(5), LooseDraws),
     \* round 0, no meld; K-A-2-3 of clubs and 5-6-7-8 of mixed suits
     BotCase(0, <<Clb(13), Clb(14), Clb(2), Clb(3), Hrt(5), Dia(6),
                  Hrt(7), Hrt(8), Spd(12), Dia(10), Spd(4), Dia(9)>>,
             Loose, Hrt(5), LooseDraws),
     \* round 1, four Fives and 3-4-6 of clubs: the trio 5h 5d 5s and the
     \* escala 3c 4c 5c 6c
     BotCase(1, <<Hrt(5), Dia(5), Clb(5), Spd(5), Clb(3), Clb(4), Clb(6),
                  Dia(9), Spd(11), Hrt(13), Dia(2), Spd(8)>>,
             Loose, Hrt(14), LooseDraws),
     \* round 1, a trio and 3-joker-5-6-7 of hearts
     BotCase(1, <<Hrt(3), Joker, Hrt(5), Hrt(6), Hrt(7), Spd(9), Clb(9), Dia(9),
                  Clb(2), Dia(11), Spd(13), Clb(12)>>,
             Loose, Hrt(14), LooseDraws),
     \* round 2, J-Q-K-A and 2-3-joker-5-6 of hearts
     BotCase(2, <<Hrt(11), Hrt(12), Hrt(13), Hrt(14), Hrt(2), Hrt(3), Joker,
                  Hrt(5), Hrt(6), Spd(9), Dia(4), Clb(8)>>,
             Loose, Spd(14), LooseDraws),
     \* round 3, three trios, one of them with the joker
     BotCase(3, <<Hrt(8), Dia(8), Joker, Clb(10), Spd(10), Dia(10),
                  Hrt(12), Dia(12), Clb(12), Spd(3), Dia(5), Clb(14)>>,
             Loose, Spd(14), LooseDraws),
     \* round 7, four trios dealt
     BotCase(7, <<Hrt(4), Dia(4), Clb(4), Hrt(6), Dia(6), Clb(6),
                  Hrt(9), Dia(9), Clb(9), Hrt(13), Dia(13), Clb(13)>>,
             Loose, Spd(14), LooseDraws),
     \* round 8, the spades 2..K dealt and the Ace the third card of the deck,
     \* behind two Aces of other suits
     BotCase(8, <<Spd(2), Spd(3), Spd(4), Spd(5), Spd(6), Spd(7),
                  Spd(8), Spd(9), Spd(10), Spd(11), Spd(12), Spd(13)>>,
             Loose, Hrt(14), <<Dia(14), Hrt(14), Spd(14), Hrt(9), Dia(10), Clb(6)>>)}

\* the two bots of a table: the seat that opens the round and the other
BotPairs == {<<"bot_easy", "bot_hard">>, <<"bot_medium", "bot_hard">>,
             <<"bot_hard", "bot_medium">>}

\* the GameState at the start of round c.round_index: end_round left the turn
\* at seat round_index % n, the seat that opens won the rounds before and the
\* other seat was left holding a Two in each
BotTable(c, pair) ==
    LET opens == c.round_index % 2
        roster == IF opens = 0 THEN pair ELSE Reverse(pair)
        hands == IF opens = 0 THEN c.hand \o c.other ELSE c.other \o c.hand
        before == [new(roster) EXCEPT
                    !.round_index = c.round_index,
                    !.current_round = all_rounds[c.round_index + 1],
                    !.current_turn = opens,
                    !.players[2 - opens].points = 2 * c.round_index]
    IN  start_round(before, DeckWithTop(hands \o <<c.pozo>> \o c.next))

\* Room::new for a table of bots followed by the first lines of Room::run
InitBots ==
    \E c \in BotCases, pair \in BotPairs :
        LET gs == BotTable(c, pair)
            spawned == check_bot_turn(gs, FALSE, <<>>)
        IN  /\ game_state = gs
            /\ draws = [i \in 1..Len(gs.players) |-> 0]
            /\ inbox = <<>>
            /\ ready_sent = {}
            /\ last_error = ""
            /\ client_rx = [id \in NonBots(gs) |-> Channel("idle", <<>>)]
            /\ player_channels = {}
            /\ sending = <<>>
            /\ bot_action_pending = spawned[1]
            /\ bot_tasks = spawned[2]

NextBots ==
    \/ BotTimer
    \/ RoomAction

\* the bot tasks and the room task run whenever they can
SpecBots ==
    /\ InitBots
    /\ [][NextBots]_vars
    /\ WF_vars(BotTimer) /\ WF_vars(RoomAction)

(***************************************************************************)
(* Properties                                                              *)
(***************************************************************************)
\* every card of the state: deck, discard pile, hands and table melds
AllCards(gs) ==
    gs.deck \o gs.discard_pile
        \o Flatten([i \in 1..Len(gs.players) |-> gs.players[i].hand])
        \o Flatten([i \in 1..Len(gs.players) |->
                        Flatten(gs.players[i].dropped_combinations)])

\* C1: in every state reached after start_round, through calls that return
\* Ok or Err, the deck, the discard pile, the hands and the table melds hold
\* exactly the 108 cards of the starting multiset.
C1_CardsConserved == SameMultiset(AllCards(game_state), DeckNew)

\* callers and call arguments the return-value properties range over
AnySeat(gs) == Ids(gs) \cup {Stranger}

\* the call returned an error and left the GameState as it was
Refused(r, gs) == ~r.ok /\ r.gs = gs

\* C2: while is_game_over or is_waiting_for_next_round holds, draw_from_deck,
\* draw_from_discard, discard, drop_hand and shed_card, from any seat and
\* with any arguments, return an error and leave the GameState unchanged.
C2_FrozenBetweenRounds ==
    LET gs == game_state
    IN  (gs.is_game_over \/ gs.is_waiting_for_next_round) =>
            /\ Refused(draw_from_deck(gs), gs)
            /\ Refused(draw_from_discard(gs), gs)
            /\ \A card_index \in 0..Len(CurrentPlayer(gs).hand) :
                    Refused(discard(gs, card_index), gs)
            /\ \A player_id \in AnySeat(gs) :
                    \A combinations \in Submissions(HandOf(gs, player_id)) :
                        Refused(drop_hand(gs, player_id, combinations), gs)
            /\ \A player_id \in AnySeat(gs), target_player_id \in AnySeat(gs),
                  target_combo_idx \in 0..MaxComboIdx :
                    \A hand_card_index \in 0..Len(HandOf(gs, player_id)) :
                        Refused(shed_card(gs, player_id, hand_card_index,
                                          target_player_id, target_combo_idx), gs)

\* the game is over with cards left in the deck, in the discard pile and in
\* a hand, so that each of the calls has something to act on
C2_GameOverWithCards ==
    /\ game_state.is_game_over
    /\ game_state.deck # <<>>
    /\ game_state.discard_pile # <<>>
    /\ \E i \in 1..Len(game_state.players) : game_state.players[i].hand # <<>>

\* C10: between two turn boundaries at most one draw is applied to the
\* current seat: draw_from_deck and draw_from_discard succeed only when
\* has_drawn_this_turn is false, and has_drawn_this_turn is true exactly when
\* one draw was applied in the current turn.
C10_OneDrawPerTurn ==
    LET gs == game_state
    IN  /\ \A i \in 1..Len(gs.players) :
            /\ draws[i] <= 1
            /\ gs.players[i].has_drawn_this_turn <=> draws[i] = 1
        /\ draw_from_deck(gs).ok => ~CurrentPlayer(gs).has_drawn_this_turn
        /\ draw_from_discard(gs).ok => ~CurrentPlayer(gs).has_drawn_this_turn

\* a second draw was refused in a turn that has its draw, after an earlier
\* turn of the round ended by a discard
C10_SecondDrawRefused ==
    /\ InRound(game_state)
    /\ TurnsPlayed(game_state) > 0
    /\ draws[game_state.current_turn + 1] = 1
    /\ ~draw_from_discard(game_state).ok
    /\ ~draw_from_deck(game_state).ok
    /\ game_state.discard_pile # <<>>

\* the melds on the table, seat by seat
TableMelds(gs) ==
    Flatten([i \in 1..Len(gs.players) |-> gs.players[i].dropped_combinations])

\* C4: in every reachable state every meld of every player's
\* dropped_combinations is a valid trio or a valid escala, also after
\* successful shed_card extensions of melds drop_hand accepted.
C4_TableMeldsValid ==
    \A i \in 1..Len(TableMelds(game_state)) :
        \/ is_valid_trio(TableMelds(game_state)[i])
        \/ is_valid_escala(TableMelds(game_state)[i])

\* the groups of the submissions a seat can make from its hand
Groups(gs, player_id) ==
    UNION {{combinations[i] : i \in 1..Len(combinations)} :
                combinations \in Submissions(HandOf(gs, player_id))}

SuitsOf(cards) == {cards[i].suit : i \in {j \in 1..Len(cards) : ~is_joker(cards[j])}}

ValuesOf(cards) == {cards[i].value : i \in {j \in 1..Len(cards) : ~is_joker(cards[j])}}

\* the submitted groups drop_hand took as escalas
AcceptedEscalas(gs, player_id, combinations) ==
    IF drop_hand(gs, player_id, combinations).ok
    THEN {combinations[i] : i \in {j \in 1..Len(combinations) :
                ~(Len(combinations[j]) >= 3 /\ is_valid_trio(combinations[j]))}}
    ELSE {}

\* C5: is_valid_escala is true only for groups whose non-joker cards share
\* one suit, so drop_hand never accepts as an escala a group with standard
\* cards of two suits.
C5_EscalaSingleSuit ==
    \A player_id \in Ids(game_state) :
        /\ \A group \in Groups(game_state, player_id) :
                is_valid_escala(group) => Cardinality(SuitsOf(group)) <= 1
        /\ \A combinations \in Submissions(HandOf(game_state, player_id)) :
                \A group \in AcceptedEscalas(game_state, player_id, combinations) :
                    Cardinality(SuitsOf(group)) <= 1

C7_EscalaRealThirteen ==
    game_state.round_index = 8 =>
        \A player_id \in Ids(game_state) :
            \A combinations \in Submissions(HandOf(game_state, player_id)) :
                drop_hand(game_state, player_id, combinations).ok =>
                    Len(combinations) = 1 /\ Len(combinations[1]) = 13

\* the runs of four and five neighbouring cards of a hand
Runs(hand) ==
    {SubSeq(hand, ik[1], ik[1] + ik[2] - 1) :
        ik \in {x \in (1..Len(hand)) \X (4..5) : x[1] + x[2] - 1 <= Len(hand)}}

\* the ranks of the group fit in a window of Len(cards) consecutive ranks of
\* the circle 2, 3, ..., K, A, 2, ...
CircularRun(cards) ==
    /\ Len(cards) >= 4
    /\ Jokers(cards) <= 1
    /\ ValuesOf(cards) # {}
    /\ Cardinality(ValuesOf(cards)) = Len(cards) - Jokers(cards)
    /\ \E s \in 0..12 : \A v \in ValuesOf(cards) : (v - s) % 13 < Len(cards)

TrioGroups(combinations) ==
    {i \in 1..Len(combinations) :
        Len(combinations[i]) >= 3 /\ is_valid_trio(combinations[i])}

EscalaGroups(combinations) ==
    {i \in 1..Len(combinations) :
        /\ i \notin TrioGroups(combinations)
        /\ Len(combinations[i]) >= 4 /\ is_valid_escala(combinations[i])}

\* hand, has_dropped_hand and dropped_combinations of every seat are the same
SameBajada(gs, after) ==
    \A i \in 1..Len(gs.players) :
        /\ after.players[i].hand = gs.players[i].hand
        /\ after.players[i].has_dropped_hand = gs.players[i].has_dropped_hand
        /\ after.players[i].dropped_combinations = gs.players[i].dropped_combinations

\* C8: drop_hand succeeds only if every submitted group is a valid trio of
\* three or more cards or a valid escala of four or more and the numbers of
\* trio groups and escala groups equal the round's (req_trios, req_escalas);
\* otherwise it returns an error and hand, has_dropped_hand and
\* dropped_combinations are unchanged.
C8_DropMeetsRequirement ==
    \A player_id \in AnySeat(game_state) :
        \A combinations \in Submissions(HandOf(game_state, player_id)) :
            LET r == drop_hand(game_state, player_id, combinations)
                req == get_requirements(game_state.current_round)
            IN  /\ r.ok =>
                    /\ TrioGroups(combinations) \cup EscalaGroups(combinations)
                            = 1..Len(combinations)
                    /\ Cardinality(TrioGroups(combinations)) = req[1]
                    /\ Cardinality(EscalaGroups(combinations)) = req[2]
                /\ ~r.ok => SameBajada(game_state, r.gs)

\* the seat in turn has drawn and not dropped; one of its submissions is
\* accepted, another made of valid groups only is refused for its counts
C8_AcceptedAndRefused ==
    LET gs == game_state
        me == CurrentPlayer(gs)
    IN  /\ InRound(gs) /\ me.has_drawn_this_turn /\ ~me.has_dropped_hand
        /\ \E combinations \in Submissions(me.hand) :
                drop_hand(gs, me.id, combinations).ok
        /\ \E combinations \in Submissions(me.hand) :
                /\ combinations # <<>>
                /\ TrioGroups(combinations) \cup EscalaGroups(combinations)
                        = 1..Len(combinations)
                /\ ~drop_hand(gs, me.id, combinations).ok

\* some card is named more often than the hand holds it
OverNamed(hand, combinations) ==
    \E i \in 1..Len(Flatten(combinations)) :
        Count(Flatten(combinations), Flatten(combinations)[i])
            > Count(hand, Flatten(combinations)[i])

\* C9: after a successful drop_hand the hand is the hand before minus the
\* multiset of submitted cards and dropped_combinations is the submitted
\* groups in submission order; a submission naming a card more often than
\* the hand holds it is rejected.
C9_DropMovesSubmittedCards ==
    \A player_id \in AnySeat(game_state) :
        \A combinations \in Submissions(HandOf(game_state, player_id)) \cup {Foreign} :
            LET r == drop_hand(game_state, player_id, combinations)
                hand == CurrentPlayer(game_state).hand
                after == r.gs.players[game_state.current_turn + 1]
            IN  /\ r.ok =>
                    /\ SameMultiset(after.hand \o Flatten(combinations), hand)
                    /\ after.dropped_combinations = combinations
                /\ OverNamed(hand, combinations) => ~r.ok

\* the seat in turn has a submission that is accepted and one that meets the
\* round's requirement with valid groups but names a card it holds too few of
C9_AcceptedAndOverNamed ==
    LET gs == game_state
        me == CurrentPlayer(gs)
        req == get_requirements(gs.current_round)
    IN  /\ InRound(gs) /\ me.has_drawn_this_turn /\ ~me.has_dropped_hand
        /\ \E combinations \in Submissions(me.hand) :
                drop_hand(gs, me.id, combinations).ok
        /\ \E combinations \in Submissions(me.hand) :
                /\ OverNamed(me.hand, combinations)
                /\ TrioGroups(combinations) \cup EscalaGroups(combinations)
                        = 1..Len(combinations)
                /\ Cardinality(TrioGroups(combinations)) = req[1]
                /\ Cardinality(EscalaGroups(combinations)) = req[2]


\* C3: in a room, after a round ends with is_game_over false, once every
\* non-bot seat has sent MarkReady the next round starts.  As a final
\* result: when every non-bot seat has sent MarkReady and the room has
\* handled every event it received, the room is not waiting any more.
C3_ReadyStartsNextRound ==
    (/\ ~game_state.is_game_over
     /\ NonBots(game_state) \subseteq ready_sent
     /\ inbox = <<>>)
        => ~game_state.is_waiting_for_next_round

\* C11: discard is rejected unless the seat in turn has drawn this turn; on
\* success hand[card_index] is the top of the discard pile, the seat's
\* turns_played is one more, and if its hand is not empty current_turn is
\* (current_turn + 1) mod |players| and the incoming seat has
\* has_drawn_this_turn and dropped_hand_this_turn both false.
C11_DiscardEndsTurn ==
    LET gs == game_state
        n == Len(gs.players)
        me == gs.current_turn + 1
    IN  \A card_index \in 0..Len(gs.players[me].hand) :
            LET r == discard(gs, card_index)
                incoming == ((gs.current_turn + 1) % n) + 1
            IN  /\ ~gs.players[me].has_drawn_this_turn => Refused(r, gs)
                /\ r.ok =>
                    /\ card_index < Len(gs.players[me].hand)
                    /\ r.gs.discard_pile # <<>>
                    /\ Last(r.gs.discard_pile) = gs.players[me].hand[card_index + 1]
                    /\ Len(r.gs.discard_pile) = Len(gs.discard_pile) + 1
                    /\ Len(r.gs.players[me].hand) = Len(gs.players[me].hand) - 1
                    /\ r.gs.players[me].turns_played = gs.players[me].turns_played + 1
                    /\ r.gs.players[me].hand # <<>> =>
                        /\ r.gs.current_turn = incoming - 1
                        /\ ~r.gs.players[incoming].has_drawn_this_turn
                        /\ ~r.gs.players[incoming].dropped_hand_this_turn

\* a discard has just passed the turn on inside a round: the seat now in turn
\* has not drawn and its discard is refused, the seat before it has a
\* completed turn and its card lies on top of the discard pile
C11_TurnPassed ==
    LET gs == game_state
        n == Len(gs.players)
        before == ((gs.current_turn + n - 1) % n) + 1
    IN  /\ InRound(gs)
        /\ gs.last_action.action_type = "discarded"
        /\ gs.last_action.player_id = gs.players[before].id
        /\ gs.players[before].turns_played > 0
        /\ Last(gs.discard_pile) = gs.last_action.card
        /\ ~CurrentPlayer(gs).has_drawn_this_turn
        /\ CurrentPlayer(gs).hand # <<>>
        /\ ~discard(gs, 0).ok

\* C12: a player who has dropped their hand never receives a card from the
\* discard pile: draw_from_discard by a seat with has_dropped_hand returns an
\* error and leaves the state (discard pile and hand included) unchanged, and
\* it returns an error when the discard pile is empty.  The last action is a
\* draw from the discard pile only for a seat that has not dropped.
C12_NoPozoAfterBajada ==
    LET gs == game_state
        r == draw_from_discard(gs)
    IN  /\ CurrentPlayer(gs).has_dropped_hand =>
            /\ ~r.ok
            /\ r.gs.discard_pile = gs.discard_pile
            /\ r.gs.players = gs.players
        /\ gs.discard_pile = <<>> => ~r.ok
        /\ r.ok => r.gs.players[gs.current_turn + 1].hand
                        = Append(CurrentPlayer(gs).hand, Last(gs.discard_pile))
        /\ gs.last_action.action_type = "drew_from_pozo" =>
                ~PlayerById(gs, gs.last_action.player_id).has_dropped_hand

\* the seat in turn has dropped in an earlier turn, has not drawn yet and the
\* discard pile holds a card: only the has_dropped_hand check refuses the draw
C12_BajadoAtPozo ==
    LET gs == game_state
    IN  /\ InRound(gs)
        /\ CurrentPlayer(gs).has_dropped_hand
        /\ ~CurrentPlayer(gs).has_drawn_this_turn
        /\ gs.discard_pile # <<>>
        /\ ~draw_from_discard(gs).ok

\* C13: shed_card succeeds only when the caller is the seat in turn, has
\* drawn this turn, has has_dropped_hand and not dropped_hand_this_turn, and
\* the target player exists and is bajado; no shed_card succeeds in the turn
\* of the shedder's own drop_hand (from the drop to the next successful
\* shed or discard the last action is the drop), and a rejected shed leaves
\* the state unchanged.
C13_ShedOnlyAfterBajada ==
    LET gs == game_state
        me == CurrentPlayer(gs)
    IN  \A player_id \in AnySeat(gs), target_player_id \in AnySeat(gs),
           target_combo_idx \in 0..MaxComboIdx :
            \A hand_card_index \in 0..Len(HandOf(gs, player_id)) :
                LET r == shed_card(gs, player_id, hand_card_index,
                                   target_player_id, target_combo_idx)
                IN  /\ r.ok =>
                        /\ player_id = me.id
                        /\ me.has_drawn_this_turn
                        /\ me.has_dropped_hand
                        /\ ~me.dropped_hand_this_turn
                        /\ target_player_id \in Ids(gs)
                        /\ PlayerById(gs, target_player_id).has_dropped_hand
                        /\ gs.last_action.action_type # "bajó"
                    /\ ~r.ok => r.gs = gs

\* a shed has succeeded inside a round, by a seat that completed the turn of
\* its drop, and the same seat can shed once more
C13_ShedInLaterTurn ==
    LET gs == game_state
        me == CurrentPlayer(gs)
    IN  /\ InRound(gs)
        /\ gs.last_action.action_type = "shed"
        /\ gs.last_action.player_id = me.id
        /\ me.turns_played > 0
        /\ \E hand_card_index \in 0..Len(me.hand), target_player_id \in Ids(gs),
               target_combo_idx \in 0..MaxComboIdx :
                shed_card(gs, me.id, hand_card_index, target_player_id, target_combo_idx).ok

\* C14: a successful shed_card removes exactly the card at hand_card_index
\* from the shedder's hand and inserts it into the target meld at the end
\* can_shed reports (front for ExtendLeft, back for ExtendRight and
\* TrioExtension); every other hand, every other meld, the deck and the
\* discard pile are unchanged, and current_turn is unchanged unless the
\* shedder's hand became empty.
C14_ShedMovesOneCard ==
    LET gs == game_state
        me == gs.current_turn + 1
        hand == gs.players[me].hand
    IN  \A target_player_id \in Ids(gs), target_combo_idx \in 0..MaxComboIdx,
           hand_card_index \in 0..Len(hand) :
            LET r == shed_card(gs, gs.players[me].id, hand_card_index,
                               target_player_id, target_combo_idx)
                target == FindPlayer(gs, target_player_id) + 1
                card == hand[hand_card_index + 1]
                meld == gs.players[target].dropped_combinations[target_combo_idx + 1]
                position == can_shed(card, meld)
            IN  r.ok =>
                    /\ position # "None"
                    /\ r.gs.players[me].hand = RemoveAt(hand, hand_card_index)
                    /\ r.gs.players[target].dropped_combinations[target_combo_idx + 1]
                            = IF position = "ExtendLeft" THEN <<card>> \o meld
                              ELSE meld \o <<card>>
                    /\ \A i \in 1..Len(gs.players) :
                            /\ i # me => r.gs.players[i].hand = gs.players[i].hand
                            /\ Len(r.gs.players[i].dropped_combinations)
                                    = Len(gs.players[i].dropped_combinations)
                            /\ \A k \in 1..Len(gs.players[i].dropped_combinations) :
                                    (i # target \/ k # target_combo_idx + 1) =>
                                        r.gs.players[i].dropped_combinations[k]
                                            = gs.players[i].dropped_combinations[k]
                    /\ r.gs.deck = gs.deck
                    /\ r.gs.discard_pile = gs.discard_pile
                    /\ r.gs.players[me].hand # <<>> =>
                            r.gs.current_turn = gs.current_turn /\ r.result = NoResult

\* the last action put a card in front of an escala of the table, and the
\* shedder still holds cards
C14_ShedInFront ==
    LET gs == game_state
    IN  /\ InRound(gs)
        /\ gs.last_action.action_type = "shed"
        /\ CurrentPlayer(gs).hand # <<>>
        /\ \E i \in 1..Len(TableMelds(gs)) :
                /\ TableMelds(gs)[i][1] = gs.last_action.card
                /\ ~is_valid_trio(TableMelds(gs)[i])
                /\ Len(TableMelds(gs)[i]) >= 5

\* the 52 standard cards
StandardDeck == {Std(Suit[s], v) : s \in 1..Len(Suit), v \in Value}

Min(xs) == CHOOSE x \in xs : \A y \in xs : x <= y

\* the table melds can_shed takes as escalas that hold one suit, no joker
\* and not both an Ace and a Two: runs in the order 2, 3, ..., K, A
PlainEscalas(gs) ==
    {TableMelds(gs)[i] : i \in {j \in 1..Len(TableMelds(gs)) :
        LET meld == TableMelds(gs)[j]
        IN  /\ ~is_meld_trio(meld) /\ is_meld_escala(meld)
            /\ Jokers(meld) = 0
            /\ Cardinality(SuitsOf(meld)) = 1
            /\ ~({2, 14} \subseteq ValuesOf(meld))}}

\* C15: for an escala on the table can_shed accepts a standard card only if
\* it has the escala's suit and its rank is one above the run's last rank
\* (ExtendRight; beyond the King only the Ace) or one below the run's first
\* rank (ExtendLeft); nothing is accepted below a Two, so an Ace is never
\* placed to the left of a Two.
C15_ShedNextRankOnly ==
    /\ \A meld \in PlainEscalas(game_state), card \in StandardDeck :
            LET position == can_shed(card, meld)
            IN  position # "None" =>
                    /\ {card.suit} = SuitsOf(meld)
                    /\ position \in {"ExtendLeft", "ExtendRight"}
                    /\ position = "ExtendRight" => card.value = Max(ValuesOf(meld)) + 1
                    /\ position = "ExtendLeft" => card.value = Min(ValuesOf(meld)) - 1
    /\ \A i \in 1..Len(TableMelds(game_state)), card \in StandardDeck :
            LET meld == TableMelds(game_state)[i]
            IN  (~is_meld_trio(meld) /\ is_meld_escala(meld)
                    /\ can_shed(card, meld) = "ExtendLeft")
                    => ~(card.value = 14 /\ 2 \in ValuesOf(meld))

\* C16: an Ace of the escala's suit can be shed onto the left end of a table
\* escala that starts with Two: for the seat in turn that has drawn and has
\* dropped in an earlier turn, shed_card of the Ace onto 2-3-4-5 of its suit
\* succeeds and the Ace becomes the first card of the meld.
C16_AceShedLeftOfTwo ==
    LET gs == game_state
        me == CurrentPlayer(gs)
    IN  (/\ InRound(gs)
         /\ me.has_drawn_this_turn /\ me.has_dropped_hand /\ ~me.dropped_hand_this_turn)
        => \A target_player_id \in Ids(gs), s \in 1..Len(Suit) :
            LET melds == PlayerById(gs, target_player_id).dropped_combinations
                low == <<Std(Suit[s], 2), Std(Suit[s], 3), Std(Suit[s], 4), Std(Suit[s], 5)>>
                ace == Std(Suit[s], 14)
            IN  \A k \in 1..Len(melds), i \in 1..Len(me.hand) :
                    (melds[k] = low /\ me.hand[i] = ace) =>
                        LET r == shed_card(gs, me.id, i - 1, target_player_id, k - 1)
                        IN  /\ r.ok
                            /\ PlayerById(r.gs, target_player_id).dropped_combinations[k]
                                    = <<ace>> \o low

\* the point value of a card left in a hand: 2-10 face, J/Q/K 10, Ace 20,
\* Joker 50
LeftInHand(c) ==
    CASE c = Joker -> 50
      [] c # Joker /\ c.value \in 2..10 -> c.value
      [] c # Joker /\ c.value \in 11..13 -> 10
      [] c # Joker /\ c.value = 14 -> 20

HandValue(hand) == SumSeq([i \in 1..Len(hand) |-> LeftInHand(hand[i])])

\* the Results of every discard and shed_card call of the seat in turn
TurnEndingCalls(gs) ==
    LET me == CurrentPlayer(gs)
    IN  {discard(gs, card_index) : card_index \in 0..Len(me.hand)}
            \cup {shed_card(gs, me.id, x[1], x[2], x[3]) :
                    x \in (0..Len(me.hand)) \X Ids(gs) \X (0..MaxComboIdx)}

\* C17: whenever the hand of the seat in turn becomes empty through discard
\* or shed_card, end_round runs: every player's points grow by the value of
\* the cards left in that player's hand (2-10 face, J/Q/K 10, Ace 20, Joker
\* 50), the result names the seat whose hand emptied as winner_id with
\* round points 0, and next_round_index is the finished index plus one.
C17_RoundEndScores ==
    LET gs == game_state
        me == gs.current_turn + 1
    IN  \A r \in TurnEndingCalls(gs) :
            /\ (r.ok /\ r.gs.players[me].hand = <<>>) =>
                /\ r.result # NoResult
                /\ r.result.winner_id = gs.players[me].id
                /\ r.result.finished_round_index = gs.round_index
                /\ r.result.next_round_index = gs.round_index + 1
                /\ r.gs.round_index = gs.round_index + 1
                /\ r.result.player_scores[me] = <<gs.players[me].id, 0, gs.players[me].points>>
                /\ \A i \in 1..Len(gs.players) :
                        /\ r.gs.players[i].points
                                = gs.players[i].points + HandValue(r.gs.players[i].hand)
                        /\ r.result.player_scores[i]
                                = <<gs.players[i].id, HandValue(r.gs.players[i].hand),
                                    r.gs.players[i].points>>
            /\ (r.ok /\ r.gs.players[me].hand # <<>>) =>
                /\ r.result = NoResult
                /\ \A i \in 1..Len(gs.players) : r.gs.players[i].points = gs.players[i].points

\* the last round was won by a shed of the last card; the other seat was
\* left with cards that count
C17_WonByShed ==
    LET gs == game_state
    IN  /\ gs.is_game_over
        /\ gs.last_action.action_type = "shed"
        /\ PlayerById(gs, gs.last_action.player_id).hand = <<>>
        /\ \E i \in 1..Len(gs.players) :
                gs.players[i].hand # <<>> /\ gs.players[i].points >= HandValue(gs.players[i].hand)
                    /\ HandValue(gs.players[i].hand) > 0

\* the (req_trios, req_escalas) of the nine rounds
RoundRequirements ==
    <<<<2, 0>>, <<1, 1>>, <<0, 2>>, <<3, 0>>, <<2, 1>>, <<1, 2>>, <<0, 3>>, <<4, 0>>, <<0, 1>>>>

\* C18: round_index <= 9 in every reachable state; while round_index = k < 9
\* the current round's (req_trios, req_escalas) is the k-th entry of (2,0),
\* (1,1), (0,2), (3,0), (2,1), (1,2), (0,3), (4,0), (0,1); is_game_over
\* becomes true exactly when the round with index 8 ends and is never
\* cleared afterwards.
C18_NineRounds ==
    /\ [](/\ game_state.round_index \in 0..9
          /\ game_state.round_index < 9 =>
                get_requirements(game_state.current_round)
                    = RoundRequirements[game_state.round_index + 1]
          /\ game_state.is_game_over <=> game_state.round_index = 9)
    /\ [][/\ game_state.is_game_over => game_state'.is_game_over
          /\ (~game_state.is_game_over /\ game_state'.is_game_over)
                <=> (game_state.round_index = 8 /\ game_state'.round_index = 9)
          /\ game_state'.round_index \in {game_state.round_index, game_state.round_index + 1}]_vars

\* the ninth round has ended
C18_LastRoundEnded ==
    /\ game_state.round_index = 9
    /\ game_state.is_game_over
    /\ game_state.current_round = "EscalaReal"

\* C19: when a round other than the last ends current_turn is set to the new
\* round_index mod |players| and keeps that value through the waiting phase
\* and start_round: the first seat to act in round r is seat r mod |players|
\* whoever won the round before.
C19_DealerRotation ==
    LET gs == game_state
    IN  (gs.is_waiting_for_next_round \/ (InRound(gs) /\ TurnsPlayed(gs) = 0))
            => gs.current_turn = gs.round_index % Len(gs.players)

\* a round is won by the seat that did not open it, while the next round is
\* opened by a seat other than the winner; and a later round has started
\* with no turn completed yet
C19_WinnerDoesNotOpen ==
    LET gs == game_state
    IN  /\ gs.is_waiting_for_next_round
        /\ gs.round_index >= 2
        /\ gs.last_action.action_type \in {"discarded", "shed"}
        /\ gs.last_action.player_id # CurrentPlayer(gs).id
        /\ \E shuffled \in Shuffles :
                LET started == mark_player_ready(
                                    mark_player_ready(gs, gs.players[1].id, shuffled).gs,
                                    gs.players[2].id, shuffled).gs
                IN  InRound(started) /\ started.current_turn = gs.current_turn

\* the same game with the given seat held by a bot: the engine reads a
\* player id only to compare it and through starts_with("bot_")
SeatedBot(gs, seat, bot_id) ==
    [gs EXCEPT
        !.players[seat].id = bot_id,
        !.last_action.player_id = IF @ = gs.players[seat].id THEN bot_id ELSE @]

AllReady(gs) == \A i \in 1..Len(gs.players) : gs.players[i].is_ready_for_next_round

\* C20: mark_player_ready returns an error and changes nothing unless
\* is_waiting_for_next_round holds; while waiting it sets the caller's ready
\* flag, and the waiting flag is cleared and start_round is run exactly when
\* every seat is ready after the call.  Bot seats were marked ready by
\* end_round: in the game where one seat is a bot, a round that ends leaves
\* exactly the bot ready and the one call of the other seat starts the round.
C20_ReadyStartsRound ==
    LET gs == game_state
    IN  /\ \A player_id \in AnySeat(gs), shuffled \in Shuffles :
            LET r == mark_player_ready(gs, player_id, shuffled)
                p == FindPlayer(gs, player_id) + 1
                marked == [gs EXCEPT !.players[p].is_ready_for_next_round = TRUE]
            IN  /\ ~gs.is_waiting_for_next_round => Refused(r, gs)
                /\ (gs.is_waiting_for_next_round /\ player_id \notin Ids(gs)) => Refused(r, gs)
                /\ (gs.is_waiting_for_next_round /\ player_id \in Ids(gs)) =>
                    /\ r.ok
                    /\ ~AllReady(marked) => r.gs = marked
                    /\ AllReady(marked) =>
                        /\ ~r.gs.is_waiting_for_next_round
                        /\ r.gs = start_round(
                                    [marked EXCEPT !.is_waiting_for_next_round = FALSE],
                                    shuffled)
                    /\ r.gs.is_waiting_for_next_round <=> ~AllReady(marked)
        /\ \A seat \in 1..Len(gs.players), card_index \in 0..Len(CurrentPlayer(gs).hand) :
            LET ended == discard(SeatedBot(gs, seat, "bot_easy"), card_index)
            IN  (ended.ok /\ ended.gs.is_waiting_for_next_round) =>
                    /\ \A i \in 1..Len(gs.players) :
                            ended.gs.players[i].is_ready_for_next_round <=> i = seat
                    /\ \A i \in 1..Len(gs.players), shuffled \in Shuffles :
                            mark_player_ready(ended.gs, ended.gs.players[i].id, shuffled)
                                    .gs.is_waiting_for_next_round
                                <=> i = seat

\* the room waits with one seat ready and the other not: the call of the
\* ready seat changes nothing but is accepted, the call of the other seat
\* starts the round
C20_OneSeatReady ==
    LET gs == game_state
    IN  /\ gs.is_waiting_for_next_round
        /\ \E i, j \in 1..Len(gs.players) :
                /\ gs.players[i].is_ready_for_next_round
                /\ ~gs.players[j].is_ready_for_next_round
                /\ \E shuffled \in Shuffles :
                    /\ mark_player_ready(gs, gs.players[i].id, shuffled).gs = gs
                    /\ InRound(mark_player_ready(gs, gs.players[j].id, shuffled).gs)

\* orders a client may ask for: those of ReorderChoices, the hand reversed,
\* the hand rotated by one, and the hand with its first card replaced by a
\* second copy of its second card
ReorderRequests(hand) ==
    ReorderChoices(hand)
        \cup {Reverse(hand)}
        \cup (IF hand = <<>> THEN {}
              ELSE {Tail(hand) \o <<Head(hand)>>}
                    \cup (IF Len(hand) < 2 THEN {} ELSE {<<hand[2]>> \o Tail(hand)}))

\* C21: reorder_hand(player, new_hand) succeeds exactly when new_hand holds
\* the same multiset of cards as the player's hand; on success the hand is
\* new_hand and nothing else of the GameState changes, the current order is
\* accepted and changes nothing, and a refused call leaves the GameState
\* as it was.
C21_ReorderIffPermutation ==
    \A player_id \in Ids(game_state) :
        LET hand == PlayerById(game_state, player_id).hand
            p == FindPlayer(game_state, player_id)
        IN  /\ \A new_hand \in ReorderRequests(hand) :
                    LET r == reorder_hand(game_state, player_id, new_hand)
                    IN  /\ r.ok <=> SameMultiset(hand, new_hand)
                        /\ r.ok => r.gs = [game_state EXCEPT !.players[p + 1].hand = new_hand]
                        /\ ~r.ok => r.gs = game_state
            /\ reorder_hand(game_state, player_id, hand).ok
            /\ reorder_hand(game_state, player_id, hand).gs = game_state

\* a seat holds one card twice, a reversal of its hand is accepted and
\* changes the order, and the hand with a third copy of that card in place
\* of another card is refused
C21_ReorderedAndRefused ==
    \E player_id \in Ids(game_state) :
        LET hand == PlayerById(game_state, player_id).hand
        IN  /\ Len(hand) >= 3
            /\ hand[1] # hand[2]
            /\ Count(hand, hand[2]) = 2
            /\ reorder_hand(game_state, player_id, Reverse(hand)).ok
            /\ reorder_hand(game_state, player_id, Reverse(hand)).gs # game_state
            /\ ~reorder_hand(game_state, player_id, <<hand[2]>> \o Tail(hand)).ok

\* C22: while is_game_over or is_waiting_for_next_round holds, reorder_hand
\* from any seat and with any order returns an error and leaves the
\* GameState unchanged.
C22_ReorderFrozenBetweenRounds ==
    LET gs == game_state
    IN  (gs.is_game_over \/ gs.is_waiting_for_next_round) =>
            \A player_id \in AnySeat(gs) :
                \A new_hand \in ReorderRequests(HandOf(gs, player_id)) :
                    Refused(reorder_hand(gs, player_id, new_hand), gs)

\* the messages sent to a seat that it has not read yet: those on its channel
\* and those the room task has still to put there
Outbound(rx, sends, user_id) ==
    LET ToSeat(send) == send.to = user_id
        waiting == SelectSeq(sends, ToSeat)
    IN  rx[user_id].queue \o [i \in 1..Len(waiting) |-> waiting[i].msg]

\* the seat has a channel in player_channels whose receiver lives
Connected(user_id) ==
    /\ user_id \in player_channels
    /\ user_id \in DOMAIN client_rx
    /\ client_rx[user_id].state = "open"

\* the messages a step of the room task sends to a seat
Placed(user_id) ==
    LET before == Outbound(client_rx, sending, user_id)
        after == Outbound(client_rx', sending', user_id)
    IN  SubSeq(after, Len(before) + 1, Len(after))

\* C23: in a room, while a round is active, no step changes the hand of a
\* seat other than the seat in turn, neither its cards nor their order.
C23_ExclusiveTurnWriter ==
    [][InRound(game_state) =>
            \A j \in 1..Len(game_state.players) :
                j # game_state.current_turn + 1 =>
                    game_state'.players[j].hand = game_state.players[j].hand]_vars

\* the room has refused an action as "Not your turn" in an active round in
\* which the seat out of turn holds a hand that reorder_hand, called for that
\* seat, would reorder
C23_RefusedOutOfTurn ==
    /\ InRound(game_state)
    /\ last_error = "Not your turn"
    /\ \E j \in 1..Len(game_state.players) :
            LET seat == game_state.players[j]
                r == reorder_hand(game_state, seat.id, Swap01(seat.hand))
            IN  /\ j # game_state.current_turn + 1
                /\ r.ok
                /\ r.gs.players[j].hand # seat.hand

\* C24: when the room dequeues a PlayerAction of a seat that is not the seat
\* in turn, the GameState stays as it is and, if the seat is connected, the
\* first message the room sends it is Error "Not your turn"; when the action
\* is of the seat in turn and the engine returns an error, the GameState
\* stays as it is.
C24_OnlyTurnOwnerApplied ==
    [][RoomAction =>
            LET event == Head(inbox)
                r == handle_action(game_state, event.user_id, event.action)
            IN  /\ CurrentPlayer(game_state).id # event.user_id =>
                        /\ game_state' = game_state
                        /\ Connected(event.user_id) =>
                                /\ Placed(event.user_id) # <<>>
                                /\ Placed(event.user_id)[1] = ErrorMessage("Not your turn")
                /\ (CurrentPlayer(game_state).id = event.user_id /\ ~r.ok) =>
                        game_state' = game_state]_vars

\* C25: among the messages sent to a connected seat, every Error is directly
\* followed by a GameStateUpdate, and every GameStateUpdate the room sends
\* is the one build_state_message_for_user gives for the GameState the room
\* holds after handling the event.
C25_ErrorThenState ==
    /\ [](\A user_id \in DOMAIN client_rx :
            Connected(user_id) =>
                LET out == Outbound(client_rx, sending, user_id)
                IN  \A k \in 1..Len(out) :
                        out[k].type = "Error" =>
                            k < Len(out) /\ out[k + 1].type = "GameStateUpdate")
    /\ [][(RoomAction \/ RoomJoined) =>
            \A user_id \in DOMAIN client_rx :
                \A k \in 1..Len(Placed(user_id)) :
                    Placed(user_id)[k].type = "GameStateUpdate" =>
                        Placed(user_id)[k]
                            = build_state_message_for_user(game_state', user_id)]_vars

\* a connected seat has an Error before it, followed by a GameStateUpdate
C25_ErrorOnChannel ==
    \E user_id \in DOMAIN client_rx :
        /\ Connected(user_id)
        /\ \E k \in 1..Len(client_rx[user_id].queue) :
                client_rx[user_id].queue[k].type = "Error"

\* C26: in the step of the room task in which a round ends, every connected
\* seat is sent the RoundEnded of that round before any GameStateUpdate of
\* the next round index; and no message to a seat carries a round index
\* beyond the one of the GameState, so no such GameStateUpdate was sent
\* earlier.
C26_RoundEndedFirst ==
    /\ [][RoomAction =>
            LET event == Head(inbox)
                r == handle_action(game_state, event.user_id, event.action)
            IN  r.result # NoResult =>
                    \A user_id \in DOMAIN client_rx :
                        Connected(user_id) =>
                            LET placed == Placed(user_id)
                            IN  \E k \in 1..Len(placed) :
                                    /\ placed[k] = RoundEnded(r.result)
                                    /\ placed[k].round_index = game_state.round_index
                                    /\ \A j \in 1..Len(placed) :
                                            (/\ placed[j].type = "GameStateUpdate"
                                             /\ placed[j].current_round_index
                                                    = game_state.round_index + 1) => k < j]_vars
    /\ [](\A user_id \in DOMAIN client_rx :
            LET out == Outbound(client_rx, sending, user_id)
            IN  \A k \in 1..Len(out) :
                    out[k].type = "GameStateUpdate" =>
                        out[k].current_round_index <= game_state.round_index)

\* a connected seat has the RoundEnded of round 0 on its channel, followed
\* by a GameStateUpdate of round index 1
C26_RoundEndedOnChannel ==
    \E user_id \in DOMAIN client_rx :
        LET queue == client_rx[user_id].queue
        IN  /\ Connected(user_id)
            /\ Len(queue) >= 2
            /\ queue[1].type = "RoundEnded"
            /\ queue[1].round_index = 0
            /\ queue[2].type = "GameStateUpdate"
            /\ queue[2].current_round_index = 1

\* C27: while the channel of a seat is full the room task is not held up:
\* with an event in its inbox it is at receiver.recv(), not inside a send
\* that waits for capacity.
C27_FullChannelNeverBlocks ==
    \A user_id \in DOMAIN client_rx :
        (/\ client_rx[user_id].state = "open"
         /\ Len(client_rx[user_id].queue) >= ChannelCapacity
         /\ inbox # <<>>) => sending = <<>>

\* the bot decisions outstanding: the spawned tasks that have not sent their
\* action, and the bots' PlayerActions in the inbox
BotActionsQueued ==
    Cardinality({i \in 1..Len(inbox) :
                    inbox[i].event = "PlayerAction" /\ is_bot(inbox[i].user_id)})

Outstanding == Len(bot_tasks) + BotActionsQueued

\* C28: at most one bot decision is outstanding, bot_action_pending is set
\* exactly while one is, and a bot's PlayerAction in the inbox is dequeued
\* without the room task having to wait for a client: the room task is at
\* receiver.recv() or in a send that can complete.
C28_OneBotDecision ==
    /\ Outstanding <= 1
    /\ bot_action_pending <=> Outstanding = 1
    /\ BotActionsQueued > 0 =>
            sending = <<>> \/ Deliver(client_rx, sending)[2] # sending

\* states of the game that differ from gs only in what seat user_id is not
\* shown: the other hands (same sizes), the deck, the discard pile below its
\* top, the ready flags, the waiting flag and the last action
Hidden(gs, user_id) ==
    LET Others(hand_of(_)) ==
            [i \in 1..Len(gs.players) |->
                IF gs.players[i].id = user_id THEN gs.players[i]
                ELSE [gs.players[i] EXCEPT
                        !.hand = hand_of(@),
                        !.is_ready_for_next_round = ~@]]
        Jokers13(hand) == [k \in 1..Len(hand) |-> Joker]
        Buried(pile) == [k \in 1..Len(pile) |-> IF k = Len(pile) THEN pile[k] ELSE Joker]
    IN  {[gs EXCEPT !.players = Others(Jokers13)],
         [gs EXCEPT !.players = Others(Reverse)],
         [gs EXCEPT !.deck = <<>>],
         [gs EXCEPT !.deck = Reverse(@)],
         [gs EXCEPT !.discard_pile = Buried(@)],
         [gs EXCEPT !.players = Others(Jokers13), !.deck = Reverse(@),
                    !.discard_pile = Buried(@),
                    !.is_waiting_for_next_round = ~@,
                    !.last_action = NoAction]}

\* C29: the GameStateUpdate built for a seat is the same in every state that
\* shows the seat the same: its own hand, every seat's public fields, the
\* round, the seat in turn, the top of the discard pile and is_game_over.
\* The other hands, the deck and the buried discards do not reach it.
C29_StateHidesOtherHands ==
    \A user_id \in Ids(game_state) :
        \A other \in Hidden(game_state, user_id) :
            build_state_message_for_user(other, user_id)
                = build_state_message_for_user(game_state, user_id)

\* a round is active, the other seat holds standard cards in an order that
\* is not its reverse, cards are buried in the discard pile, and each state
\* of Hidden differs from the game's
C29_HiddenDiffers ==
    /\ InRound(game_state)
    /\ Len(game_state.discard_pile) >= 2
    /\ game_state.discard_pile[1] # Joker
    /\ Len(game_state.deck) >= 2
    /\ \A user_id \in Ids(game_state) :
            game_state \notin Hidden(game_state, user_id)

\* C30: for the seat in turn, held by a bot of any difficulty, play_bot_turn
\* returns DrawFromDeck or DrawFromDiscard exactly when the seat has not
\* drawn in this turn, and DropHand or Discard only when it has.
C30_BotPhaseIsTurnPhase ==
    LET gs == game_state
        me == CurrentPlayer(gs)
    IN  InRound(gs) =>
            \A bot_id \in BotIds :
                LET game == SeatedBot(gs, gs.current_turn + 1, bot_id)
                IN  \A rng \in RngChoices(me, Difficulty(bot_id)),
                       bajada \in BajadaChoices(game, me) :
                        LET action == play_bot_turn(game, bot_id, Difficulty(bot_id),
                                                    rng, bajada)
                        IN  /\ action.type \in {"DrawFromDeck", "DrawFromDiscard"}
                                <=> ~me.has_drawn_this_turn
                            /\ action.type \in {"DropHand", "Discard"}
                                => me.has_drawn_this_turn

\* C31: for a seat in turn with turns_played = 0, held by a bot of any
\* difficulty, play_bot_turn never returns DropHand, whatever find_best_bajada
\* found in the hand; when the seat holds 13 cards and has not gone down
\* (the after-draw phase) it returns a Discard.
C31_NoDropHandOnFirstTurn ==
    LET gs == game_state
        me == CurrentPlayer(gs)
    IN  InRound(gs) /\ me.turns_played = 0 =>
            \A bot_id \in BotIds :
                LET game == SeatedBot(gs, gs.current_turn + 1, bot_id)
                IN  \A rng \in RngChoices(me, Difficulty(bot_id)),
                       bajada \in BajadaChoices(game, me) :
                        LET action == play_bot_turn(game, bot_id, Difficulty(bot_id),
                                                    rng, bajada)
                        IN  /\ action.type # "DropHand"
                            /\ detect_phase(me) = "AfterDraw" => action.type = "Discard"

\* the seat in turn has drawn on its opening turn and holds the melds of the
\* round, which find_best_bajada returns
C31_FirstTurnWithMelds ==
    LET gs == game_state
        me == CurrentPlayer(gs)
    IN  /\ InRound(gs)
        /\ me.turns_played = 0
        /\ detect_phase(me) = "AfterDraw"
        /\ \E bajada \in BajadaChoices(gs, me) : bajada.found

\* ids of the seats of a table of up to four players
SeatNames == <<"alice", "bob", "carol", "dave">>

\* the game with n seats: seats are dropped from the end or added as copies
\* of the first seat, flags and points included, under the ids of SeatNames
WithSeats(gs, n) ==
    [gs EXCEPT
        !.players = [i \in 1..n |->
                        IF i <= Len(gs.players) THEN gs.players[i]
                        ELSE [gs.players[1] EXCEPT !.id = SeatNames[i],
                                                   !.points = @ + i]],
        !.current_turn = IF @ < n THEN @ ELSE 0]

\* what start_round leaves: 12 cards in each hand, 1 card on the discard
\* pile, 108 - 12n - 1 in the deck, the round flags of every seat reset,
\* ids and points as before
Started(before, after) ==
    LET n == Len(before.players)
    IN  /\ Len(after.players) = n
        /\ Len(after.discard_pile) = 1
        /\ Len(after.deck) = 108 - 12 * n - 1
        /\ \A i \in 1..n :
            /\ Len(after.players[i].hand) = 12
            /\ ~after.players[i].has_dropped_hand
            /\ after.players[i].dropped_combinations = <<>>
            /\ after.players[i].turns_played = 0
            /\ ~after.players[i].has_drawn_this_turn
            /\ ~after.players[i].dropped_hand_this_turn
            /\ ~after.players[i].is_ready_for_next_round
            /\ after.players[i].points = before.players[i].points
            /\ after.players[i].id = before.players[i].id

\* C32: start_round, at the creation of a table of 2, 3 or 4 seats, on any
\* reachable game seen with 2, 3 or 4 seats, and when run by the last
\* mark_player_ready, leaves 12 cards in every hand, 1 card on the discard
\* pile and 108 - 12n - 1 cards in the deck, resets has_dropped_hand,
\* dropped_combinations, turns_played, has_drawn_this_turn,
\* dropped_hand_this_turn and is_ready_for_next_round of every seat, and
\* keeps the points.
C32_StartRoundDeals ==
    LET gs == game_state
    IN  /\ \A n \in 2..4, shuffled \in Shuffles :
            /\ Started(new(SubSeq(SeatNames, 1, n)),
                       start_round(new(SubSeq(SeatNames, 1, n)), shuffled))
            /\ Started(WithSeats(gs, n), start_round(WithSeats(gs, n), shuffled))
        /\ \A player_id \in Ids(gs), shuffled \in Shuffles :
            LET r == mark_player_ready(gs, player_id, shuffled)
            IN  (r.ok /\ ~r.gs.is_waiting_for_next_round) => Started(gs, r.gs)

\* a later round has just been started by the last mark_player_ready: no
\* seat has played, a seat carries points of an earlier round, and 83 cards
\* are in the deck
C32_LaterRoundStarted ==
    LET gs == game_state
    IN  /\ InRound(gs)
        /\ gs.round_index >= 1
        /\ Len(gs.deck) = 83
        /\ \A i \in 1..Len(gs.players) :
                gs.players[i].turns_played = 0 /\ ~gs.players[i].has_drawn_this_turn
        /\ \E i \in 1..Len(gs.players) : gs.players[i].points > 0

\* the elements of a sequence
Range(s) == {s[i] : i \in 1..Len(s)}

\* the requirements of the nine rounds
Requirements == {get_requirements(all_rounds[i]) : i \in 1..Len(all_rounds)}

\* the melds are req_trios trio candidates and req_escalas escala
\* candidates, every index is a position of the hand, every mask is the set
\* of the candidate's indices, and no two candidates share a position
WellFormedBajada(hand, req_trios, req_escalas, melds) ==
    /\ Cardinality({m \in 1..Len(melds) : melds[m].meld_type = "Trio"}) = req_trios
    /\ Cardinality({m \in 1..Len(melds) : melds[m].meld_type = "Escala"}) = req_escalas
    /\ Len(melds) = req_trios + req_escalas
    /\ \A m \in 1..Len(melds) :
        /\ \A k \in 1..Len(melds[m].card_indices) :
                melds[m].card_indices[k] \in 0..(Len(hand) - 1)
        /\ melds[m].mask = Range(melds[m].card_indices)
        /\ Cardinality(melds[m].mask) = Len(melds[m].card_indices)
    /\ \A m, o \in 1..Len(melds) : m # o => melds[m].mask \cap melds[o].mask = {}

\* C33: whenever find_best_bajada returns Some(melds) for the hand of the
\* seat in turn, under the requirement of any round, with or without
\* minimize_points, melds holds exactly req_trios trio candidates and
\* req_escalas escala candidates, their masks are pairwise disjoint, and
\* every index is a position of the hand.
C33_BajadaWellFormed ==
    LET hand == CurrentPlayer(game_state).hand
    IN  \A req \in Requirements, minimize_points \in BOOLEAN,
           order \in ByValueOrders(hand) :
            LET bajada == find_best_bajada(hand, req[1], req[2], minimize_points, order)
            IN  bajada.found => WellFormedBajada(hand, req[1], req[2], bajada.melds)

\* the hand in turn holds overlapping candidates, and find_best_bajada
\* returns two or more melds for the round
C33_SeveralMeldsFound ==
    LET gs == game_state
        hand == CurrentPlayer(gs).hand
        req == get_requirements(gs.current_round)
    IN  /\ InRound(gs)
        /\ \E order \in ByValueOrders(hand) :
            /\ \E a, b \in Range(find_all_trio_candidates(hand, order)
                                 \o find_all_escala_candidates(hand)) :
                    a # b /\ a.mask \cap b.mask # {}
            /\ LET bajada == find_best_bajada(hand, req[1], req[2], TRUE, order)
               IN  bajada.found /\ Len(bajada.melds) >= 2

\* the cards of a candidate, in candidate order
CandidateCards(hand, c) == [k \in 1..Len(c.card_indices) |-> hand[c.card_indices[k] + 1]]

\* the candidate is a run: at least 4 positions of the hand, none twice, the
\* standard cards of one suit, at most one joker, and the card at place k
\* has rank first + k - 1 for a first rank that keeps the run within 2..Ace;
\* a joker is never the last card, and the hand holds the card of the suit
\* just below its rank, so it fills a gap between two cards of the hand;
\* an Ace and a Two are never neighbours
IsEscalaRun(hand, c) ==
    LET cards == CandidateCards(hand, c)
        n == Len(cards)
        std == {k \in 1..n : ~is_joker(cards[k])}
    IN  /\ n >= 4
        /\ Cardinality(c.mask) = n
        /\ n - Cardinality(std) <= 1
        /\ \A k, j \in std : cards[k].suit = cards[j].suit
        /\ \E first \in 2..14 :
            /\ first + n - 1 <= 14
            /\ \A k \in std : cards[k].value = first + k - 1
        /\ \A k \in (1..n) \ std :
            /\ k < n
            /\ \E i \in 1..Len(hand) :
                /\ ~is_joker(hand[i])
                /\ hand[i].suit = cards[k + 1].suit
                /\ hand[i].value = cards[k + 1].value - 2
        /\ \A k \in 1..(n - 1) :
            (k \in std /\ k + 1 \in std) => {cards[k].value, cards[k + 1].value} # {14, 2}

\* C34: for the hand of each seat, every candidate of
\* find_all_escala_candidates is, in candidate order, a run of at least 4
\* cards of one suit with consecutive Ace-high ranks and at most one joker,
\* which stands for the rank of a gap between two cards of the hand; no
\* candidate holds a card of another suit or an Ace next to a Two; and four
\* consecutive ranks of a suit held in the hand, J-Q-K-A among them, are a
\* candidate.
C34_EscalaCandidatesAreRuns ==
    \A p \in 1..Len(game_state.players) :
        LET hand == game_state.players[p].hand
            candidates == find_all_escala_candidates(hand)
        IN  /\ \A c \in Range(candidates) : IsEscalaRun(hand, c)
            /\ \A s \in 1..Len(Suit), first \in 2..11 :
                (\A v \in first..(first + 3) : \E i \in 1..Len(hand) : hand[i] = Std(Suit[s], v))
                    => \E c \in Range(candidates) :
                        CandidateCards(hand, c) = [k \in 1..4 |-> Std(Suit[s], first + k - 1)]

\* a seat holds J-Q-K-A of a suit together with the Two of that suit and a
\* joker: J-Q-K-A is a candidate, and so is a run with the joker in it
C34_AceHighRunFound ==
    \E p \in 1..Len(game_state.players), s \in 1..Len(Suit) :
        LET hand == game_state.players[p].hand
            candidates == find_all_escala_candidates(hand)
        IN  /\ \E i \in 1..Len(hand) : hand[i] = Std(Suit[s], 2)
            /\ \E c \in Range(candidates) :
                CandidateCards(hand, c) = [k \in 1..4 |-> Std(Suit[s], 10 + k)]
            /\ \E c \in Range(candidates) :
                \E k \in 1..Len(c.card_indices) : is_joker(CandidateCards(hand, c)[k])

\* C35: every call of draw_from_deck, draw_from_discard, discard, drop_hand,
\* shed_card, reorder_hand and mark_player_ready that returns an error
\* leaves the GameState (deck, discard pile, hands, melds, flags, turn and
\* round) as it was before the call; a second draw_from_deck in a turn takes
\* no card from the deck.
C35_ErrorsLeaveStateUnchanged ==
    LET gs == game_state
        Unchanged(r) == ~r.ok => r.gs = gs
    IN  /\ Unchanged(draw_from_deck(gs))
        /\ CurrentPlayer(gs).has_drawn_this_turn
                => Len(draw_from_deck(gs).gs.deck) = Len(gs.deck)
        /\ Unchanged(draw_from_discard(gs))
        /\ \A card_index \in 0..Len(CurrentPlayer(gs).hand) :
                Unchanged(discard(gs, card_index))
        /\ \A player_id \in AnySeat(gs) :
            /\ \A combinations \in Submissions(HandOf(gs, player_id)) :
                    Unchanged(drop_hand(gs, player_id, combinations))
            /\ \A new_hand \in ReorderRequests(HandOf(gs, player_id)) :
                    Unchanged(reorder_hand(gs, player_id, new_hand))
            /\ \A shuffled \in Shuffles :
                    Unchanged(mark_player_ready(gs, player_id, shuffled))
            /\ \A target_player_id \in AnySeat(gs), target_combo_idx \in 0..MaxComboIdx :
                    \A hand_card_index \in 0..Len(HandOf(gs, player_id)) :
                        Unchanged(shed_card(gs, player_id, hand_card_index,
                                            target_player_id, target_combo_idx))

\* seat s (0-based) is in turn in an active round, held by a bot that has
\* played fewer than MaxBotTurns turns, and the deck is not empty
BotInTurn(s) ==
    /\ InRound(game_state)
    /\ game_state.current_turn = s
    /\ is_bot(CurrentPlayer(game_state).id)
    /\ CurrentPlayer(game_state).turns_played < MaxBotTurns
    /\ game_state.deck # <<>>

\* C36: in an active round with a non-empty deck, whenever the seat in turn
\* is a bot, the turn of that seat eventually ends under fair scheduling of
\* the bot timer and the room's inbox, in every turn of the bot, those after
\* it has dropped its hand included.  In the form a finite run refutes: the
\* bot task scheduled for the seat in turn can take a decision that the
\* room accepts; when every decision it can take is refused the game it is
\* scheduled on again is the same, and so is every later decision.
C36_BotTurnCanAdvance ==
    \A t \in 1..Len(bot_tasks) :
        LET task == bot_tasks[t]
            player == CurrentPlayer(task.gs)
            req == get_requirements(task.gs.current_round)
        IN  (task.gs = game_state /\ task.uid = player.id
                /\ BotInTurn(game_state.current_turn)) =>
                \E rng \in RngChoices(player, task.diff),
                   order \in ByValueOrders(player.hand) :
                    LET bajada == find_best_bajada(player.hand, req[1], req[2],
                                                   task.diff # "Easy", order)
                        action == play_bot_turn(task.gs, task.uid, task.diff, rng, bajada)
                    IN  /\ action # NoMessage
                        /\ handle_action(game_state, task.uid, action).ok

\* the inbox holds the PlayerAction of a bot
BotActionAt(i) ==
    /\ i \in 1..Len(inbox)
    /\ inbox[i].event = "PlayerAction"
    /\ is_bot(inbox[i].user_id)

\* C37: the GameState is the snapshot of every scheduled bot task until the
\* task sends its action, and from then until the room dequeues that action
\* no step changes the GameState: not PlayerJoined, not PlayerLeft, not the
\* action of another seat dequeued before it.  So the action is dequeued on
\* the state it was computed from.
C37_BotActsOnLiveState ==
    /\ [](\A t \in 1..Len(bot_tasks) : bot_tasks[t].gs = game_state)
    /\ [][(\E i \in 1..Len(inbox) : BotActionAt(i))
            /\ ~(BotActionAt(1) /\ inbox' = Tail(inbox))
                => game_state' = game_state]_vars

\* the action of a bot waits in the inbox behind the frame of the other
\* seat, a frame the engine would accept from the seat in turn
C37_BotActionBehindFrame ==
    /\ Len(inbox) >= 2
    /\ inbox[1].event = "PlayerAction"
    /\ ~is_bot(inbox[1].user_id)
    /\ BotActionAt(2)
    /\ handle_action_any_seat(game_state, inbox[1].user_id, inbox[1].action).gs # game_state

\* C38: in every state of an active round (neither is_game_over nor
\* is_waiting_for_next_round) the seat in turn has a call the engine
\* accepts: draw_from_deck, draw_from_discard, discard of some card,
\* drop_hand of some combinations, or shed_card of some card onto some meld.
C38_SomeCallAccepted ==
    LET gs == game_state
        me == CurrentPlayer(gs)
    IN  InRound(gs) =>
            \/ draw_from_deck(gs).ok
            \/ draw_from_discard(gs).ok
            \/ \E card_index \in 0..Len(me.hand) : discard(gs, card_index).ok
            \/ \E combinations \in Submissions(me.hand) :
                    drop_hand(gs, me.id, combinations).ok
            \/ \E hand_card_index \in 0..Len(me.hand), target_player_id \in Ids(gs),
                  target_combo_idx \in 0..MaxComboIdx :
                    shed_card(gs, me.id, hand_card_index,
                              target_player_id, target_combo_idx).ok

\* the sets of three hand positions (0-based) whose cards are a valid trio
TrioSets(hand) ==
    {m \in SUBSET (0..(Len(hand) - 1)) :
        Cardinality(m) = 3 /\ is_valid_trio([k \in 1..3 |-> hand[Ascending(m)[k] + 1]])}

\* the sets of four hand positions whose cards are an Ace-high escala: at
\* most one joker, the standard cards of one suit, of different ranks that
\* lie within four consecutive ranks of 2..Ace
EscalaSets(hand) ==
    {m \in SUBSET (0..(Len(hand) - 1)) :
        /\ Cardinality(m) = 4
        /\ LET std == {i \in m : ~is_joker(hand[i + 1])}
           IN  /\ Cardinality(std) >= 3
               /\ \A i, j \in std :
                    /\ hand[i + 1].suit = hand[j + 1].suit
                    /\ i # j => hand[i + 1].value # hand[j + 1].value
                    /\ hand[i + 1].value - hand[j + 1].value <= 3}

\* the hand holds req_trios trios and req_escalas escalas that share no card
MeldsExist(hand, req_trios, req_escalas) ==
    \E trios \in [1..req_trios -> TrioSets(hand)],
       escalas \in [1..req_escalas -> EscalaSets(hand)] :
        /\ \A a, b \in 1..req_trios : a # b => trios[a] \cap trios[b] = {}
        /\ \A a, b \in 1..req_escalas : a # b => escalas[a] \cap escalas[b] = {}
        /\ \A a \in 1..req_trios, b \in 1..req_escalas : trios[a] \cap escalas[b] = {}

\* C39: for the hand of the seat in turn and the requirement of the round,
\* find_best_bajada returns None only if the hand holds no req_trios valid
\* trios and req_escalas valid same-suit Ace-high escalas that share no
\* card, with and without minimize_points (in the hand 5h 5d 5c 5s 3c 4c 6c
\* it is to find the trio 5h 5d 5s and the escala 3c 4c 5c 6c).
C39_NoneOnlyWhenNoMelds ==
    LET hand == CurrentPlayer(game_state).hand
        req == get_requirements(game_state.current_round)
    IN  \A minimize_points \in BOOLEAN, order \in ByValueOrders(hand) :
            ~find_best_bajada(hand, req[1], req[2], minimize_points, order).found
                => ~MeldsExist(hand, req[1], req[2])

\* C40: no bot timer is started while the round is not active: a step that
\* leaves the game over or waiting for the next round leaves no bot task
\* that was not there before it.
C40_NoTimerBetweenRounds ==
    [][~InRound(game_state') => Len(bot_tasks') <= Len(bot_tasks)]_vars

====
